---- MODULE Spec2Model ----
(***************************************************************************)
(* A model of seed's scaffolding engine (scaffold.go) and of its skills    *)
(* installer (skills.go).                                                  *)
(*                                                                         *)
(* The file system is a function from paths to nodes.  A path is the       *)
(* sequence of its components; a node is <<kind, content>> with kind one   *)
(* of "absent", "dir", "file".  Every os call of the two Go files is an    *)
(* operator on that function; every statement sequence between two os      *)
(* calls that another invocation could observe is one action.              *)
(***************************************************************************)
EXTENDS Integers, Sequences, FiniteSets, TLC

\* -------------------------------------------------------------------------
\* Bounds of the model
\* -------------------------------------------------------------------------

\* How many entries the initial states put below the destination.
MaxPre == 1

\* How many times the installer is run in one behaviour.
MaxInstalls == 2

\* -------------------------------------------------------------------------
\* Paths (path/filepath)
\* -------------------------------------------------------------------------

Join(dir, name) == Append(dir, name)

FilepathDir(path) == SubSeq(path, 1, Len(path) - 1)

parentDir == <<"parent">>

targetDir == Join(parentDir, "project")

\* -------------------------------------------------------------------------
\* Embedded assets and fixed tables
\* -------------------------------------------------------------------------

coreTemplates ==
    << "README.md.tmpl", "AGENTS.md.tmpl", "DECISIONS.md.tmpl", "TODO.md.tmpl",
       "LEARNINGS.md.tmpl", ".gitignore.tmpl", ".editorconfig.tmpl" >>

\* strings.TrimSuffix(templateName, ".tmpl") on the embedded template names.
TrimSuffixTmpl(templateName) ==
    CASE templateName = "README.md.tmpl"     -> "README.md"
      [] templateName = "AGENTS.md.tmpl"     -> "AGENTS.md"
      [] templateName = "DECISIONS.md.tmpl"  -> "DECISIONS.md"
      [] templateName = "TODO.md.tmpl"       -> "TODO.md"
      [] templateName = "LEARNINGS.md.tmpl"  -> "LEARNINGS.md"
      [] templateName = ".gitignore.tmpl"    -> ".gitignore"
      [] templateName = ".editorconfig.tmpl" -> ".editorconfig"
      [] templateName = "Dockerfile.tmpl"    -> "Dockerfile"
      [] templateName = "LICENSE-MIT.tmpl"   -> "LICENSE-MIT"
      [] templateName = "LICENSE-Apache.tmpl" -> "LICENSE-Apache"
      [] OTHER                               -> templateName

knownAITools ==
    << [Label |-> "Claude Code", StateDir |-> ".claude"],
       [Label |-> "Codex",       StateDir |-> ".codex"] >>

\* The documents embedded by skills/*.md, in the order fs.ReadDir returns
\* them (sorted by file name).
skillEntries == << "seed-feedback.md", "seed-ux-eval.md" >>

\* -------------------------------------------------------------------------
\* The paths of the model
\* -------------------------------------------------------------------------

dcDir == Join(targetDir, ".devcontainer")

vscodDir == Join(targetDir, ".vscode")

skillsDir == Join(targetDir, "skills")

CorePaths == { Join(targetDir, TrimSuffixTmpl(coreTemplates[i])) : i \in 1..Len(coreTemplates) }

licensePath == Join(targetDir, "LICENSE")

dockerfilePath == Join(dcDir, TrimSuffixTmpl("Dockerfile.tmpl"))

scriptPath == Join(dcDir, "setup.sh")

devcontainerJsonPath == Join(dcDir, "devcontainer.json")

extensionsJsonPath == Join(vscodDir, "extensions.json")

SkillPaths == { Join(skillsDir, skillEntries[i]) : i \in 1..Len(skillEntries) }

\* An entry of the destination that no step of Scaffold names.
unrelatedPath == Join(targetDir, "existing.txt")

\* Every path Scaffold may create or write below the destination.
ScaffoldOutputs ==
    CorePaths \cup { licensePath, dcDir, dockerfilePath, scriptPath,
                     devcontainerJsonPath, vscodDir, extensionsJsonPath }

\* The repository directory git init creates.
gitDir == Join(targetDir, ".git")

\* The temporary file checkTargetDir creates in the parent directory.
probePath == Join(parentDir, ".seed-check-*")

EntryPaths == ScaffoldOutputs \cup { unrelatedPath, skillsDir, gitDir } \cup SkillPaths

AllPaths == { parentDir, targetDir, probePath } \cup EntryPaths

\* -------------------------------------------------------------------------
\* File system nodes and contents
\* -------------------------------------------------------------------------

Absent == << "absent", << >> >>

DirNode == << "dir", << >> >>

File(content) == << "file", content >>

UserContent == << "user" >>

EditedContent == << "edited" >>

\* What the file holds when it was created or truncated and the write of its
\* content then failed.
Partial(name) == << "partial", name >>

Kind(f, path) == f[path][1]

Exists(f, path) == Kind(f, path) # "absent"

IsDir(f, path) == Kind(f, path) = "dir"

IsFile(f, path) == Kind(f, path) = "file"

\* os.ReadDir(dir): the entries directly below dir.
ReadDir(f, dir) ==
    { q \in DOMAIN f : Len(q) = Len(dir) + 1 /\ FilepathDir(q) = dir /\ Exists(f, q) }

\* What a path's ancestors must be for the path to be reachable.
WellFormed(f) ==
    \A q \in DOMAIN f :
        (Len(q) > 1 /\ Exists(f, q)) => IsDir(f, FilepathDir(q))

\* os.Stat(path): "dir" or "file" for what is there, "ENOENT" when the path
\* or its parent is missing, "ENOTDIR" when the parent is not a directory
\* (an error os.IsNotExist does not recognise).
Stat(f, path) ==
    IF Len(path) > 1 /\ IsFile(f, FilepathDir(path)) THEN "ENOTDIR"
    ELSE IF Len(path) > 1 /\ ~Exists(f, FilepathDir(path)) THEN "ENOENT"
    ELSE IF ~Exists(f, path) THEN "ENOENT"
    ELSE Kind(f, path)

\* The outcomes the environment chooses for a call that opens a file and
\* writes to it: both succeed, the open fails, or the write fails after the
\* file was created or truncated.
IoOutcomes == { "ok", "openFail", "writeFail" }

\* The outcomes the environment chooses for a call that creates a directory.
MkdirOutcomes == { "ok", "fail" }

\* os.Create / os.OpenFile(O_WRONLY|O_CREATE|O_TRUNC) succeeds only where
\* the parent is a directory and the path itself is not one.
CanCreate(f, path) == IsDir(f, FilepathDir(path)) /\ ~IsDir(f, path)

\* -------------------------------------------------------------------------
\* Error values: the message, as the sequence of its words
\* -------------------------------------------------------------------------

Nil == << >>

\* strings.Contains on messages.
Contains(msg, words) ==
    \E i \in 1..(Len(msg) - Len(words) + 1) :
        SubSeq(msg, i, i + Len(words) - 1) = words

ErrParentMissing ==
    << "parent", "directory", "<parentDir>", "does", "not", "exist",
       "please", "create", "it", "first" >>

ErrMkdir == << "failed", "to", "create", "directory", "<targetDir>", "<cause>" >>

ErrCheck ==
    << "failed", "to", "check", "directory", "<targetDir>",
       "stat", "<targetDir>", "not", "a", "directory" >>

ErrNotDir == << "<targetDir>", "exists", "but", "is", "not", "a", "directory" >>

ErrNotEmpty(n) ==
    << "directory", "<targetDir>", "is", "not", "empty",
       "(contains", ToString(n), "items)" >>

ErrCreate(path) == << "failed", "to", "create", path[Len(path)], "<cause>" >>

ErrRender(templateName) == << "failed", "to", "render", templateName, "<cause>" >>

ErrCreateLicense == << "failed", "to", "create", "LICENSE", "<cause>" >>

ErrRenderLicense == << "failed", "to", "render", "LICENSE", "<cause>" >>

ErrMkdirAll(name) == << "failed", "to", "create", name, "directory", "<cause>" >>

ErrWrite(name) == << "failed", "to", "write", name, "<cause>" >>

\* -------------------------------------------------------------------------
\* TemplateData and what is rendered from it
\* -------------------------------------------------------------------------

ProjectNames == { "demo" }

Descriptions == { "x" }

Images == { "go:2-1.25-trixie", "python:3-3.12" }

Licenses == { "none", "", "MIT", "Apache-2.0", "GPL-3.0" }

ExtensionLists == { << >>, << "c.d", "a.b" >> }

\* The Year values a caller passes: 0 is the unset field.
YearInputs == { 0, 2025 }

\* The values time.Now().Year() can return, from the first call on.
ClockYears == { 2026, 2027 }

TemplateDatas ==
    [ ProjectName : ProjectNames, Description : Descriptions,
      IncludeDevContainer : BOOLEAN, DevContainerImage : Images,
      AIChatContinuity : BOOLEAN, VSCodeExtensions : ExtensionLists,
      License : Licenses, Year : YearInputs ]

\* The zero value of the struct.
ZeroTemplateData ==
    [ ProjectName |-> "", Description |-> "", IncludeDevContainer |-> FALSE,
      DevContainerImage |-> "", AIChatContinuity |-> FALSE,
      VSCodeExtensions |-> << >>, License |-> "", Year |-> 0 ]

\* The fields of the data a template reads.  Year is the year of the LICENSE
\* copyright line: the license templates read it with the project name, the
\* other templates read every field but it.
TemplateInput(templateName, d) ==
    IF templateName \in { "LICENSE-MIT.tmpl", "LICENSE-Apache.tmpl" }
    THEN [ ProjectName |-> d.ProjectName, Year |-> d.Year ]
    ELSE [ d EXCEPT !.Year = 0 ]

\* templates.ExecuteTemplate(file, templateName, data): the bytes written
\* are a function of the template and of what it reads of the data.
Rendered(templateName, d) == << "rendered", templateName, TemplateInput(templateName, d) >>

\* strings.ToLower(strings.ReplaceAll(name, " ", "-")) on the project names.
LowerDashed(name) ==
    CASE name = "My App" -> "my-app"
      [] OTHER           -> name

extensionsSymlink ==
    "ln -sfn /home/vscode/.vscode-extensions-cache /home/vscode/.vscode-server/extensions; [ -f /home/vscode/.vscode-extensions-cache/extensions.json ] || echo '[]' > /home/vscode/.vscode-extensions-cache/extensions.json"

\* The loop over knownAITools with the commands of a tool written bare,
\* without the test for its state directory.
RECURSIVE ToolBlocksUnguarded(_)
ToolBlocksUnguarded(tools) ==
    IF tools = << >> THEN << >>
    ELSE LET tool == Head(tools) IN
         << << "# ", tool.Label, " (auto-detected)" >>,
            << "  mkdir -p \"$HOME/", tool.StateDir, "/projects/$HOST_KEY\"" >>,
            << "  ln -sfn \"$HOME/", tool.StateDir, "/projects/$HOST_KEY\" \"$HOME/",
               tool.StateDir, "/projects/$CONTAINER_KEY\"" >>,
            << "" >> >> \o ToolBlocksUnguarded(Tail(tools))

\* generateSetupScript: the script as the sequence of its lines, a line as
\* the sequence of the pieces Sprintf joins.
RECURSIVE ToolBlocks(_)
ToolBlocks(tools) ==
    IF tools = << >> THEN << >>
    ELSE LET tool == Head(tools) IN
         << << "# ", tool.Label, " (auto-detected)" >>,
            << "if [ -d \"$HOME/", tool.StateDir, "\" ]; then" >>,
            << "  mkdir -p \"$HOME/", tool.StateDir, "/projects/$HOST_KEY\"" >>,
            << "  ln -sfn \"$HOME/", tool.StateDir, "/projects/$HOST_KEY\" \"$HOME/",
               tool.StateDir, "/projects/$CONTAINER_KEY\"" >>,
            << "fi" >>,
            << "" >> >> \o ToolBlocks(Tail(tools))

\* generateSetupScript without the line of the symlink command.
generateSetupScriptWithoutSymlink(symlink) ==
    << << "#!/bin/bash" >>,
       << "# Dev container setup - created by seed" >>,
       << "# Symlinks VS Code extensions cache and auto-detects AI coding tools," >>,
       << "# symlinking host project state into the container so conversations persist." >>,
       << "#" >>,
       << "# HOST_WORKSPACE is set via containerEnv in devcontainer.json" >>,
       << "# and resolved from ${localWorkspaceFolder} at container creation time." >>,
       << "" >>,
       << "HOST_KEY=$(echo \"$HOST_WORKSPACE\" | tr '/' '-')" >>,
       << "CONTAINER_KEY=$(pwd | tr '/' '-')" >>,
       << "" >> >> \o ToolBlocks(knownAITools)

generateSetupScript(symlink) ==
    << << "#!/bin/bash" >>,
       << "# Dev container setup - created by seed" >>,
       << "# Symlinks VS Code extensions cache and auto-detects AI coding tools," >>,
       << "# symlinking host project state into the container so conversations persist." >>,
       << "#" >>,
       << "# HOST_WORKSPACE is set via containerEnv in devcontainer.json" >>,
       << "# and resolved from ${localWorkspaceFolder} at container creation time." >>,
       << "" >>,
       << "# Symlink cached extensions into the path VS Code expects" >>,
       << symlink >>,
       << "" >>,
       << "HOST_KEY=$(echo \"$HOST_WORKSPACE\" | tr '/' '-')" >>,
       << "CONTAINER_KEY=$(pwd | tr '/' '-')" >>,
       << "" >> >> \o ToolBlocks(knownAITools)

ScriptContent(symlink) == << "script", generateSetupScript(symlink) >>

\* ToolMounts with each mount put in front of the ones before it.
RECURSIVE ToolMountsReversed(_)
ToolMountsReversed(tools) ==
    IF tools = << >> THEN << >>
    ELSE ToolMountsReversed(Tail(tools)) \o
         << << "source=${localEnv:HOME}/", Head(tools).StateDir,
               ",target=/home/vscode/", Head(tools).StateDir,
               ",type=bind,consistency=cached" >> >>

\* The bind mounts appended when chat continuity is on, one per known tool.
RECURSIVE ToolMounts(_)
ToolMounts(tools) ==
    IF tools = << >> THEN << >>
    ELSE << << "source=${localEnv:HOME}/", Head(tools).StateDir,
               ",target=/home/vscode/", Head(tools).StateDir,
               ",type=bind,consistency=cached" >> >> \o ToolMounts(Tail(tools))

\* BuildDevContainer with ContainerEnv assigned a new map under chat
\* continuity instead of being given one more key.
BuildDevContainerEnvReplaced(d) ==
    LET extensionsVolume == << LowerDashed(d.ProjectName), "-vscode-extensions" >>
        base ==
            [ Name |-> << d.ProjectName, " (Dev Container)" >>,
              Build |-> [ Dockerfile |-> "Dockerfile" ],
              Features |-> { "ghcr.io/devcontainers/features/github-cli:1" },
              Customizations |->
                  IF Len(d.VSCodeExtensions) > 0
                  THEN << [ VSCode |-> [ Extensions |-> d.VSCodeExtensions ] ] >>
                  ELSE << >>,
              Mounts |-> << << "source=" >> \o extensionsVolume \o
                            << ",target=/home/vscode/.vscode-extensions-cache,type=volume" >> >>,
              ContainerEnv |-> [ k \in { "GH_TOKEN", "GITHUB_TOKEN" } |->
                                   IF k = "GH_TOKEN" THEN "${localEnv:GH_TOKEN}"
                                   ELSE "${localEnv:GITHUB_TOKEN}" ],
              PostCreateCommand |-> extensionsSymlink ]
    IN  IF d.AIChatContinuity
        THEN [ base EXCEPT
                 !.Mounts = @ \o ToolMounts(knownAITools),
                 !.ContainerEnv = [ k \in { "HOST_WORKSPACE" } |-> "${localWorkspaceFolder}" ],
                 !.PostCreateCommand = "bash .devcontainer/setup.sh" ]
        ELSE base

\* The DevContainer value scaffoldDevContainer builds.  Customizations is a
\* pointer: the empty sequence is nil, a one-element sequence the pointee.
BuildDevContainer(d) ==
    LET extensionsVolume == << LowerDashed(d.ProjectName), "-vscode-extensions" >>
        base ==
            [ Name |-> << d.ProjectName, " (Dev Container)" >>,
              Build |-> [ Dockerfile |-> "Dockerfile" ],
              Features |-> { "ghcr.io/devcontainers/features/github-cli:1" },
              Customizations |-> << >>,
              Mounts |-> << << "source=" >> \o extensionsVolume \o
                            << ",target=/home/vscode/.vscode-extensions-cache,type=volume" >> >>,
              ContainerEnv |-> [ k \in { "GH_TOKEN", "GITHUB_TOKEN" } |->
                                   IF k = "GH_TOKEN" THEN "${localEnv:GH_TOKEN}"
                                   ELSE "${localEnv:GITHUB_TOKEN}" ],
              PostCreateCommand |-> extensionsSymlink ]
        withExt ==
            IF Len(d.VSCodeExtensions) > 0
            THEN [ base EXCEPT !.Customizations =
                       << [ VSCode |-> [ Extensions |-> d.VSCodeExtensions ] ] >> ]
            ELSE base
    IN  IF d.AIChatContinuity
        THEN [ withExt EXCEPT
                 !.Mounts = @ \o ToolMounts(knownAITools),
                 !.ContainerEnv = [ k \in DOMAIN @ \cup { "HOST_WORKSPACE" } |->
                                      IF k = "HOST_WORKSPACE" THEN "${localWorkspaceFolder}"
                                      ELSE @[k] ],
                 !.PostCreateCommand = "bash .devcontainer/setup.sh" ]
        ELSE withExt

\* MarshalDevContainer with the omitempty options dropped from the tags.
MarshalWithoutOmitEmpty(dc) ==
    << << "name", dc.Name >>, << "build", dc.Build >>,
       << "features", dc.Features >>,
       << "customizations", dc.Customizations >>,
       << "mounts", dc.Mounts >>,
       << "containerEnv", dc.ContainerEnv >>,
       << "postCreateCommand", dc.PostCreateCommand >> >>

\* The object json.MarshalIndent(dc, "", "  ") encodes: the sequence of its
\* members in field order, a member left out where its tag says omitempty
\* and the value is empty.
MarshalDevContainer(dc) ==
    << << "name", dc.Name >>, << "build", dc.Build >> >>
    \o (IF dc.Features = {} THEN << >> ELSE << << "features", dc.Features >> >>)
    \o (IF dc.Customizations = << >> THEN << >>
        ELSE << << "customizations", dc.Customizations[1] >> >>)
    \o (IF dc.Mounts = << >> THEN << >> ELSE << << "mounts", dc.Mounts >> >>)
    \o (IF DOMAIN dc.ContainerEnv = {} THEN << >>
        ELSE << << "containerEnv", dc.ContainerEnv >> >>)
    \o (IF dc.PostCreateCommand = "" THEN << >>
        ELSE << << "postCreateCommand", dc.PostCreateCommand >> >>)

\* JSON text, as the sequence of its tokens: punctuation, the key of a member,
\* the value of a member.
Punct(c) == << "punct", c >>

KeyToken(k) == << "key", k >>

ValueToken(v) == << "value", v >>

\* EncodeJson written as text substitution: every member followed by a comma.
RECURSIVE MembersWithCommas(_)
MembersWithCommas(members) ==
    IF members = << >> THEN << >>
    ELSE << KeyToken(Head(members)[1]), Punct(":"), ValueToken(Head(members)[2]),
            Punct(",") >> \o MembersWithCommas(Tail(members))

EncodeJsonBySubstitution(members) ==
    << Punct("{") >> \o MembersWithCommas(members) \o << Punct("}"), Punct("\n") >>

\* The members of an object as the encoder writes them, a comma between two.
RECURSIVE EncodeMembers(_)
EncodeMembers(members) ==
    IF members = << >> THEN << >>
    ELSE << KeyToken(Head(members)[1]), Punct(":"), ValueToken(Head(members)[2]) >>
         \o (IF Len(members) > 1 THEN << Punct(",") >> ELSE << >>)
         \o EncodeMembers(Tail(members))

\* The text json.MarshalIndent returns for an object, and the newline the
\* caller appends.
EncodeJson(members) ==
    << Punct("{") >> \o EncodeMembers(members) \o << Punct("}"), Punct("\n") >>

IsPunct(token, c) == token[1] = "punct" /\ token[2] = c

\* The decoder on what stands between the braces: a member, then a comma
\* and a member any number of times.
RECURSIVE DecodeMembers(_)
DecodeMembers(tokens) ==
    IF Len(tokens) < 3 THEN [ ok |-> FALSE, members |-> << >> ]
    ELSE IF tokens[1][1] # "key" \/ ~IsPunct(tokens[2], ":") \/ tokens[3][1] # "value"
    THEN [ ok |-> FALSE, members |-> << >> ]
    ELSE IF Len(tokens) = 3
    THEN [ ok |-> TRUE, members |-> << << tokens[1][2], tokens[3][2] >> >> ]
    ELSE IF ~IsPunct(tokens[4], ",") THEN [ ok |-> FALSE, members |-> << >> ]
    ELSE LET rest == DecodeMembers(SubSeq(tokens, 5, Len(tokens))) IN
         IF rest.ok
         THEN [ ok |-> TRUE,
                members |-> << << tokens[1][2], tokens[3][2] >> >> \o rest.members ]
         ELSE rest

\* json.Unmarshal on the text of an object: whether the text is valid, and
\* the members it holds.  White space after the closing brace is skipped.
DecodeJson(tokens) ==
    LET text == IF Len(tokens) > 0 /\ IsPunct(tokens[Len(tokens)], "\n")
                THEN SubSeq(tokens, 1, Len(tokens) - 1) ELSE tokens
        n == Len(text)
    IN  IF n < 2 \/ ~IsPunct(text[1], "{") \/ ~IsPunct(text[n], "}")
        THEN [ ok |-> FALSE, members |-> << >> ]
        ELSE IF n = 2 THEN [ ok |-> TRUE, members |-> << >> ]
        ELSE DecodeMembers(SubSeq(text, 2, n - 1))

HasMember(obj, key) == \E i \in 1..Len(obj) : obj[i][1] = key

Member(obj, key) == obj[CHOOSE i \in 1..Len(obj) : obj[i][1] = key][2]

\* json.Unmarshal into a DevContainer: a field takes the value of its member,
\* and keeps its zero value where the object has no such member.
UnmarshalDevContainer(obj) ==
    [ Name |-> IF HasMember(obj, "name") THEN Member(obj, "name") ELSE << >>,
      Build |-> IF HasMember(obj, "build") THEN Member(obj, "build")
                ELSE [ Dockerfile |-> "" ],
      Features |-> IF HasMember(obj, "features") THEN Member(obj, "features") ELSE {},
      Customizations |-> IF HasMember(obj, "customizations")
                         THEN << Member(obj, "customizations") >> ELSE << >>,
      Mounts |-> IF HasMember(obj, "mounts") THEN Member(obj, "mounts") ELSE << >>,
      ContainerEnv |-> IF HasMember(obj, "containerEnv") THEN Member(obj, "containerEnv")
                       ELSE [ k \in {} |-> "" ],
      PostCreateCommand |-> IF HasMember(obj, "postCreateCommand")
                            THEN Member(obj, "postCreateCommand") ELSE "" ]

DevContainerJson(d) ==
    << "json", EncodeJson(MarshalDevContainer(BuildDevContainer(d))) >>

\* json.MarshalIndent(VSCodeWorkspaceExtensions{...}) followed by a newline.
ExtensionsJson(extensions) ==
    << "json", EncodeJson(<< << "recommendations", extensions >> >>) >>

\* The content of an embedded skill document.
Embedded(name) == << "embedded", name >>

\* -------------------------------------------------------------------------
\* File-writing calls.  Each returns the new file system and the error.
\* -------------------------------------------------------------------------

\* renderTemplate with the output opened for appending instead of truncated.
renderTemplateAppending(f, dir, templateName, d, io) ==
    LET outputName == TrimSuffixTmpl(templateName)
        outputPath == Join(dir, outputName)
        written == IF IsFile(f, outputPath)
                   THEN << "appended", f[outputPath][2], Rendered(templateName, d) >>
                   ELSE Rendered(templateName, d)
    IN  IF ~CanCreate(f, outputPath) \/ io = "openFail"
        THEN [ fs |-> f, err |-> ErrCreate(outputPath) ]
        ELSE IF io = "writeFail"
        THEN [ fs |-> [ f EXCEPT ![outputPath] = File(Partial(templateName)) ],
               err |-> ErrRender(templateName) ]
        ELSE [ fs |-> [ f EXCEPT ![outputPath] = File(written) ], err |-> Nil ]

\* renderTemplate creating its output with O_EXCL: a file that is already
\* there makes it fail.
renderTemplateExclusive(f, dir, templateName, d, io) ==
    LET outputName == TrimSuffixTmpl(templateName)
        outputPath == Join(dir, outputName)
    IN  IF ~CanCreate(f, outputPath) \/ IsFile(f, outputPath) \/ io = "openFail"
        THEN [ fs |-> f, err |-> ErrCreate(outputPath) ]
        ELSE IF io = "writeFail"
        THEN [ fs |-> [ f EXCEPT ![outputPath] = File(Partial(templateName)) ],
               err |-> ErrRender(templateName) ]
        ELSE [ fs |-> [ f EXCEPT ![outputPath] = File(Rendered(templateName, d)) ],
               err |-> Nil ]

\* renderTemplate removing the output file where executing the template fails.
renderTemplateCleaningUp(f, dir, templateName, d, io) ==
    LET outputName == TrimSuffixTmpl(templateName)
        outputPath == Join(dir, outputName)
    IN  IF ~CanCreate(f, outputPath) \/ io = "openFail"
        THEN [ fs |-> f, err |-> ErrCreate(outputPath) ]
        ELSE IF io = "writeFail"
        THEN [ fs |-> [ f EXCEPT ![outputPath] = Absent ],
               err |-> ErrRender(templateName) ]
        ELSE [ fs |-> [ f EXCEPT ![outputPath] = File(Rendered(templateName, d)) ],
               err |-> Nil ]

\* renderTemplate(targetDir, templateName, data)
renderTemplate(f, dir, templateName, d, io) ==
    LET outputName == TrimSuffixTmpl(templateName)
        outputPath == Join(dir, outputName)
    IN  IF ~CanCreate(f, outputPath) \/ io = "openFail"
        THEN [ fs |-> f, err |-> ErrCreate(outputPath) ]
        ELSE IF io = "writeFail"
        THEN [ fs |-> [ f EXCEPT ![outputPath] = File(Partial(templateName)) ],
               err |-> ErrRender(templateName) ]
        ELSE [ fs |-> [ f EXCEPT ![outputPath] = File(Rendered(templateName, d)) ],
               err |-> Nil ]

\* LicenseTemplate with the MIT text as the default of the switch.
LicenseTemplateDefaultMIT(license) ==
    CASE license = "Apache-2.0"      -> "LICENSE-Apache.tmpl"
      [] license \in { "none", "" }  -> ""
      [] OTHER                       -> "LICENSE-MIT.tmpl"

\* The template scaffoldLicense picks; "" when it returns without writing.
LicenseTemplate(license) ==
    CASE license = "MIT"        -> "LICENSE-MIT.tmpl"
      [] license = "Apache-2.0" -> "LICENSE-Apache.tmpl"
      [] OTHER                  -> ""

\* scaffoldLicense(targetDir, data)
scaffoldLicense(f, dir, d, io) ==
    LET tmplName == LicenseTemplate(d.License)
        outputPath == Join(dir, "LICENSE")
    IN  IF tmplName = "" THEN [ fs |-> f, err |-> Nil ]
        ELSE IF ~CanCreate(f, outputPath) \/ io = "openFail"
        THEN [ fs |-> f, err |-> ErrCreateLicense ]
        ELSE IF io = "writeFail"
        THEN [ fs |-> [ f EXCEPT ![outputPath] = File(Partial(tmplName)) ],
               err |-> ErrRenderLicense ]
        ELSE [ fs |-> [ f EXCEPT ![outputPath] = File(Rendered(tmplName, d)) ],
               err |-> Nil ]

\* os.WriteFile(path, content, perm)
WriteFile(f, path, content, io, e) ==
    IF ~CanCreate(f, path) \/ io = "openFail"
    THEN [ fs |-> f, err |-> e ]
    ELSE IF io = "writeFail"
    THEN [ fs |-> [ f EXCEPT ![path] = File(Partial(path[Len(path)])) ], err |-> e ]
    ELSE [ fs |-> [ f EXCEPT ![path] = File(content) ], err |-> Nil ]

\* os.MkdirAll(path, perm), for a path directly below an existing directory.
MkdirAll(f, path, mk, e) ==
    IF IsDir(f, path) THEN [ fs |-> f, err |-> Nil ]
    ELSE IF Exists(f, path) \/ ~IsDir(f, FilepathDir(path)) \/ mk = "fail"
    THEN [ fs |-> f, err |-> e ]
    ELSE [ fs |-> [ f EXCEPT ![path] = DirNode ], err |-> Nil ]

\* os.Mkdir behaving as os.MkdirAll does: a directory that is already there
\* is no error.
MkdirAcceptingExisting(f, path, mk, e) ==
    IF IsDir(f, path) THEN [ fs |-> f, err |-> Nil ]
    ELSE IF Exists(f, path) \/ ~IsDir(f, FilepathDir(path)) \/ mk = "fail"
    THEN [ fs |-> f, err |-> e ]
    ELSE [ fs |-> [ f EXCEPT ![path] = DirNode ], err |-> Nil ]

\* os.Mkdir(path, perm)
Mkdir(f, path, mk, e) ==
    IF Exists(f, path) \/ ~IsDir(f, FilepathDir(path)) \/ mk = "fail"
    THEN [ fs |-> f, err |-> e ]
    ELSE [ fs |-> [ f EXCEPT ![path] = DirNode ], err |-> Nil ]

\* -------------------------------------------------------------------------
\* State
\* -------------------------------------------------------------------------

\* The invocations of Scaffold that may run; Spec runs the first alone.
Procs == { 1, 2 }

Callers == { 1 }

VARIABLES
    fs,             \* the file system
    pc,             \* pc[p]: where invocation p of Scaffold stands
    data,           \* data[p]: its TemplateData argument
    allowNonEmpty,  \* allowNonEmpty[p]: its override argument
    info,           \* info[p]: what os.Stat(targetDir) returned to it
    idx,            \* idx[p]: its position in coreTemplates
    err,            \* err[p]: the error it returned, Nil for none
    ioFault,        \* ioFault[p]: the environment failed one of its calls
    ran,            \* ran[p]: the steps it has run, in order
    pre,            \* pre[p]: the file system when it was called
    config,         \* config[p]: the TemplateData value its caller holds
    clock,          \* the year the system clock shows
    left,           \* the tree left in a destination the caller has moved on from
    ipc,            \* where the skills installer stands
    ientry,         \* its position in skillEntries
    report,         \* report.Skipped
    ierr,           \* the error it returned, Nil for none
    ipre,           \* the file system when it was called
    installs,       \* how many times it was called
    priorOk,        \* the call before this one returned nil
    edited,         \* the skill files edited since the installer last started
    editsBefore,    \* the skill files edited between the call before and this one
    args,           \* os.Args[1:]
    parsed,         \* what parseArgs did with them
    rpc,            \* where main stands
    rerr,           \* the error run returned, NoError for none
    stderr,         \* what main wrote to standard error
    input,          \* the text typed into a field of the wizard
    verdict,        \* what the validators returned for it
    answer,         \* the user's answer to the confirmation prompt
    allowed,        \* what checkTargetDir returned as allowNonEmpty
    wizard,         \* what RunWizard returned
    log,            \* the phases run has started, in order
    git,            \* the git commands that ran to the end
    started         \* the file system when run started

scaffoldVars == << pc, data, allowNonEmpty, info, idx, err, ioFault, ran, pre, config >>

callVars == << clock, left >>

runVars == << answer, allowed, wizard, log, git, started >>

cliVars == << args, parsed, rpc, rerr, stderr, input, verdict, runVars >>

installVars ==
    << ipc, ientry, report, ierr, ipre, installs, priorOk, edited, editsBefore >>

vars == << fs, scaffoldVars, installVars, callVars, cliVars >>

\* -------------------------------------------------------------------------
\* Initial states
\* -------------------------------------------------------------------------

EmptyTree(parentNode, targetNode) ==
    [ q \in AllPaths |->
        IF q = parentDir THEN parentNode
        ELSE IF q = targetDir THEN targetNode
        ELSE Absent ]

\* The destination holding the entries S, each a user file or a directory as
\* kinds says, below the directories that lead to them.
TreeOf(S, kinds) ==
    [ q \in AllPaths |->
        IF q \in { parentDir, targetDir } THEN DirNode
        ELSE IF q \in S THEN (IF kinds[q] = "dir" THEN DirNode ELSE File(UserContent))
        ELSE IF \E s \in S : FilepathDir(s) = q THEN DirNode
        ELSE Absent ]

PopulatedTrees(candidates, max) ==
    { t \in UNION { { TreeOf(S, kinds) : kinds \in [ S -> { "file", "dir" } ] } :
                    S \in { X \in SUBSET candidates : Cardinality(X) <= max } } :
        WellFormed(t) }

\* The entries an initial destination may hold: the first and the last core
\* output, every conditional output, and an entry Scaffold does not name.
PreCandidates ==
    { Join(targetDir, TrimSuffixTmpl(coreTemplates[1])),
      Join(targetDir, TrimSuffixTmpl(coreTemplates[Len(coreTemplates)])),
      licensePath, dcDir, dockerfilePath, scriptPath, devcontainerJsonPath,
      vscodDir, extensionsJsonPath, unrelatedPath }

InitialTrees ==
    { EmptyTree(Absent, Absent), EmptyTree(File(UserContent), Absent),
      EmptyTree(DirNode, Absent), EmptyTree(DirNode, File(UserContent)) }
    \cup PopulatedTrees(PreCandidates, MaxPre)

InstallTrees ==
    { EmptyTree(DirNode, Absent), EmptyTree(DirNode, File(UserContent)) }
    \cup PopulatedTrees({ skillsDir } \cup SkillPaths, 1 + Len(skillEntries))

InitVars ==
    /\ pc = [ p \in Procs |-> "idle" ]
    /\ data = [ p \in Procs |-> ZeroTemplateData ]
    /\ allowNonEmpty = [ p \in Procs |-> FALSE ]
    /\ info = [ p \in Procs |-> "" ]
    /\ idx = [ p \in Procs |-> 0 ]
    /\ err = [ p \in Procs |-> Nil ]
    /\ ioFault = [ p \in Procs |-> FALSE ]
    /\ ran = [ p \in Procs |-> << >> ]
    /\ pre = [ p \in Procs |-> fs ]
    /\ config = [ p \in Procs |-> ZeroTemplateData ]
    /\ clock = CHOOSE y \in ClockYears : \A z \in ClockYears : y <= z
    /\ left = << >>
    /\ ipc = "idle"
    /\ ientry = 0
    /\ report = << >>
    /\ ierr = Nil
    /\ ipre = fs
    /\ installs = 0
    /\ priorOk = FALSE
    /\ edited = {}
    /\ editsBefore = {}

\* The command line before main has started.
NotParsed == [ exited |-> FALSE, stdout |-> << >>, dir |-> "", err |-> << >> ]

InitMain ==
    /\ parsed = NotParsed
    /\ rpc = "start"
    /\ rerr = << >>
    /\ stderr = << >>

\* No validator has been called.
Unchecked == [ checked |-> {}, name |-> << >>, description |-> << >> ]

ZeroWizardData ==
    [ ProjectName |-> "", Description |-> "", License |-> "", InitGit |-> FALSE,
      IncludeDevContainer |-> FALSE, DevContainerImage |-> "",
      AIChatContinuity |-> FALSE, AgentExtensions |-> << >> ]

InitRun ==
    /\ answer = "unasked"
    /\ allowed = FALSE
    /\ wizard = [ state |-> "none", data |-> ZeroWizardData ]
    /\ log = << >>
    /\ git = << >>
    /\ started = fs

InitCli == args = << >> /\ InitMain /\ input = << >> /\ verdict = Unchecked /\ InitRun

Init == fs \in InitialTrees /\ InitVars /\ InitCli

InitInstall == fs \in InstallTrees /\ InitVars /\ InitCli

\* -------------------------------------------------------------------------
\* Scaffold
\* -------------------------------------------------------------------------

\* Advance with the error of the step dropped instead of returned.
AdvanceIgnoringError(p, r, step, next) ==
    /\ fs' = r.fs
    /\ ran' = [ ran EXCEPT ![p] = Append(@, step) ]
    /\ pc' = [ pc EXCEPT ![p] = next ]
    /\ err' = err

\* A step returned r: the invocation goes on to next, or returns r.err.
Advance(p, r, step, next) ==
    /\ fs' = r.fs
    /\ ran' = [ ran EXCEPT ![p] = Append(@, step) ]
    /\ IF r.err # Nil
       THEN pc' = [ pc EXCEPT ![p] = "done" ] /\ err' = [ err EXCEPT ![p] = r.err ]
       ELSE pc' = [ pc EXCEPT ![p] = next ] /\ err' = err

Faulted(p, outcome) == ioFault' = [ ioFault EXCEPT ![p] = @ \/ outcome # "ok" ]

\* Scaffold(targetDir, data, allowNonEmpty...) is called with one of datas.
Call(p, datas) ==
    /\ pc[p] = "idle"
    /\ \E d \in datas, a \in BOOLEAN :
        /\ data' = [ data EXCEPT ![p] = d ]
        /\ config' = [ config EXCEPT ![p] = d ]
        /\ allowNonEmpty' = [ allowNonEmpty EXCEPT ![p] = a ]
    /\ pc' = [ pc EXCEPT ![p] = "prepare" ]
    /\ pre' = [ pre EXCEPT ![p] = fs ]
    /\ UNCHANGED << fs, info, idx, err, ioFault, ran, installVars, callVars, cliVars >>

Begin(p) == Call(p, TemplateDatas)

\* prepareDirectory: info, err := os.Stat(targetDir).  Where the parent is a
\* regular file the platform decides whether the error counts as not-exist.
PrepareStat(p) ==
    /\ pc[p] = "prepare"
    /\ \E r \in (IF Stat(fs, targetDir) = "ENOTDIR" THEN { "ENOTDIR", "ENOENT" }
                 ELSE { Stat(fs, targetDir) }) :
        info' = [ info EXCEPT ![p] = r ]
    /\ pc' = [ pc EXCEPT ![p] = "statted" ]
    /\ ran' = [ ran EXCEPT ![p] = Append(@, "prepareDirectory") ]
    /\ UNCHANGED << fs, data, allowNonEmpty, idx, err, ioFault, pre, installVars, callVars, cliVars, config >>

\* ParentMissing with the check of the parent left out.
ParentMissingUnchecked(f) == FALSE

\* os.Stat(parentDir) reports that the parent does not exist.
ParentMissing(f) == Stat(f, FilepathDir(targetDir)) = "ENOENT"

\* prepareDirectory, os.IsNotExist(err): the parent must exist.
PrepareParent(p) ==
    /\ pc[p] = "statted"
    /\ info[p] = "ENOENT"
    /\ IF ParentMissing(fs)
       THEN pc' = [ pc EXCEPT ![p] = "done" ] /\ err' = [ err EXCEPT ![p] = ErrParentMissing ]
       ELSE pc' = [ pc EXCEPT ![p] = "mkdir" ] /\ err' = err
    /\ UNCHANGED << fs, data, allowNonEmpty, info, idx, ioFault, ran, pre, installVars, callVars, cliVars, config >>

\* prepareDirectory: os.Mkdir(targetDir, 0755).
PrepareMkdir(p) ==
    /\ pc[p] = "mkdir"
    /\ \E mk \in MkdirOutcomes :
        LET r == Mkdir(fs, targetDir, mk, ErrMkdir) IN
        /\ fs' = r.fs
        /\ Faulted(p, mk)
        /\ IF r.err # Nil
           THEN pc' = [ pc EXCEPT ![p] = "done" ] /\ err' = [ err EXCEPT ![p] = r.err ]
           ELSE pc' = [ pc EXCEPT ![p] = "year" ] /\ err' = err
    /\ UNCHANGED << data, allowNonEmpty, info, idx, ran, pre, installVars, callVars, cliVars, config >>

\* RejectNonEmpty with the count compared off by one.
RejectNonEmptyOffByOne(n, allow) == n > 1 /\ ~allow

\* RejectNonEmpty with the override read the wrong way round.
RejectNonEmptyInverted(n, allow) == n > 0 /\ allow

\* RejectNonEmpty with the override ignored.
RejectNonEmptyAlways(n, allow) == n > 0

\* The emptiness guard of prepareDirectory.
RejectNonEmpty(n, allow) == n > 0 /\ ~allow

\* NotADirectory with the check left out.
NotADirectoryUnchecked(i) == FALSE

\* !info.IsDir()
NotADirectory(i) == i # "dir"

\* prepareDirectory, the path exists: it must be a directory, and an empty
\* one unless the override is given.
PrepareExisting(p) ==
    /\ pc[p] = "statted"
    /\ info[p] # "ENOENT"
    /\ LET n == Cardinality(ReadDir(fs, targetDir))
           e == IF info[p] = "ENOTDIR" THEN ErrCheck
                ELSE IF NotADirectory(info[p]) THEN ErrNotDir
                ELSE IF RejectNonEmpty(n, allowNonEmpty[p]) THEN ErrNotEmpty(n)
                ELSE Nil
       IN  IF e # Nil
           THEN pc' = [ pc EXCEPT ![p] = "done" ] /\ err' = [ err EXCEPT ![p] = e ]
           ELSE pc' = [ pc EXCEPT ![p] = "year" ] /\ err' = err
    /\ UNCHANGED << fs, data, allowNonEmpty, info, idx, ioFault, ran, pre, installVars, callVars, cliVars, config >>

\* AutoYear without the test for the unset year.
AutoYearAlways(p) ==
    /\ pc[p] = "year"
    /\ data' = [ data EXCEPT ![p].Year = clock ]
    /\ pc' = [ pc EXCEPT ![p] = "core" ]
    /\ idx' = [ idx EXCEPT ![p] = 1 ]
    /\ UNCHANGED << fs, allowNonEmpty, info, err, ioFault, ran, pre, installVars, callVars, cliVars, config >>

\* Scaffold: if data.Year == 0 { data.Year = time.Now().Year() }.
AutoYear(p) ==
    /\ pc[p] = "year"
    /\ LET now == clock IN
        data' = [ data EXCEPT ![p].Year = IF @ = 0 THEN now ELSE @ ]
    /\ pc' = [ pc EXCEPT ![p] = "core" ]
    /\ idx' = [ idx EXCEPT ![p] = 1 ]
    /\ UNCHANGED << fs, allowNonEmpty, info, err, ioFault, ran, pre, installVars, callVars, cliVars, config >>

\* CoreDone with the loop ending one template early.
CoreDoneEarly(i) == i >= Len(coreTemplates) - 1

\* Whether the range over coreTemplates ends after position i.
CoreDone(i) == i >= Len(coreTemplates)

\* StepFour run for chat continuity as well.
StepFourOrChat(d) == d.IncludeDevContainer \/ d.AIChatContinuity

\* Step 4 of Scaffold runs.
StepFour(d) == d.IncludeDevContainer

\* StepFive without the test of IncludeDevContainer.
StepFiveExtensionsOnly(d) == Len(d.VSCodeExtensions) > 0

\* Step 5 of Scaffold runs.
StepFive(d) == d.IncludeDevContainer /\ Len(d.VSCodeExtensions) > 0

AfterDevContainer(d) == IF StepFive(d) THEN "vsMkdirAll" ELSE "done"

AfterLicense(d) == IF StepFour(d) THEN "dcMkdirAll" ELSE AfterDevContainer(d)

\* scaffoldDevContainer writes setup.sh.
WritesSetupScript(d) == d.AIChatContinuity

\* scaffoldDevContainer going from the Dockerfile straight to the descriptor.
AfterDockerfileToDescriptor(d) == "dcWriteJson"

AfterDockerfile(d) == IF WritesSetupScript(d) THEN "dcSetupScript" ELSE "dcWriteJson"

\* Scaffold, steps 2: one renderTemplate of the loop over coreTemplates.
RenderCore(p) ==
    /\ pc[p] = "core"
    /\ \E io \in IoOutcomes :
        LET r == renderTemplate(fs, targetDir, coreTemplates[idx[p]], data[p], io) IN
        /\ Advance(p, r, coreTemplates[idx[p]],
                   IF CoreDone(idx[p]) THEN "license" ELSE "core")
        /\ Faulted(p, io)
        /\ idx' = [ idx EXCEPT ![p] = IF r.err = Nil /\ ~CoreDone(@) THEN @ + 1 ELSE @ ]
    /\ UNCHANGED << data, allowNonEmpty, info, pre, installVars, callVars, cliVars, config >>

\* Scaffold, step 3: scaffoldLicense.
License(p) ==
    /\ pc[p] = "license"
    /\ \E io \in (IF LicenseTemplate(data[p].License) = "" THEN { "ok" } ELSE IoOutcomes) :
        /\ Advance(p, scaffoldLicense(fs, targetDir, data[p], io), "scaffoldLicense",
                   AfterLicense(data[p]))
        /\ Faulted(p, io)
    /\ UNCHANGED << data, allowNonEmpty, info, idx, pre, installVars, callVars, cliVars, config >>

\* scaffoldDevContainer: os.MkdirAll(dcDir, 0755).
DcMkdirAll(p) ==
    /\ pc[p] = "dcMkdirAll"
    /\ \E mk \in (IF IsDir(fs, dcDir) THEN { "ok" } ELSE MkdirOutcomes) :
        /\ Advance(p, MkdirAll(fs, dcDir, mk, ErrMkdirAll(".devcontainer")),
                   "MkdirAll(.devcontainer)", "dcDockerfile")
        /\ Faulted(p, mk)
    /\ UNCHANGED << data, allowNonEmpty, info, idx, pre, installVars, callVars, cliVars, config >>

\* scaffoldDevContainer: renderTemplate(dcDir, "Dockerfile.tmpl", data).
DcDockerfile(p) ==
    /\ pc[p] = "dcDockerfile"
    /\ \E io \in IoOutcomes :
        /\ Advance(p, renderTemplate(fs, dcDir, "Dockerfile.tmpl", data[p], io),
                   "Dockerfile.tmpl", AfterDockerfile(data[p]))
        /\ Faulted(p, io)
    /\ UNCHANGED << data, allowNonEmpty, info, idx, pre, installVars, callVars, cliVars, config >>

\* scaffoldDevContainer, chat continuity: os.WriteFile(scriptPath, script, 0755).
DcSetupScript(p) ==
    /\ pc[p] = "dcSetupScript"
    /\ \E io \in IoOutcomes :
        /\ Advance(p, WriteFile(fs, scriptPath, ScriptContent(extensionsSymlink), io,
                                ErrWrite("setup.sh")),
                   "setup.sh", "dcWriteJson")
        /\ Faulted(p, io)
    /\ UNCHANGED << data, allowNonEmpty, info, idx, pre, installVars, callVars, cliVars, config >>

\* scaffoldDevContainer: marshal the DevContainer and write devcontainer.json.
DcWriteJson(p) ==
    /\ pc[p] = "dcWriteJson"
    /\ \E io \in IoOutcomes :
        /\ Advance(p, WriteFile(fs, devcontainerJsonPath, DevContainerJson(data[p]), io,
                                ErrWrite("devcontainer.json")),
                   "devcontainer.json", AfterDevContainer(data[p]))
        /\ Faulted(p, io)
    /\ UNCHANGED << data, allowNonEmpty, info, idx, pre, installVars, callVars, cliVars, config >>

\* writeVSCodeExtensions: os.MkdirAll(vscodDir, 0755).
VsMkdirAll(p) ==
    /\ pc[p] = "vsMkdirAll"
    /\ \E mk \in (IF IsDir(fs, vscodDir) THEN { "ok" } ELSE MkdirOutcomes) :
        /\ Advance(p, MkdirAll(fs, vscodDir, mk, ErrMkdirAll(".vscode")),
                   "MkdirAll(.vscode)", "vsWriteJson")
        /\ Faulted(p, mk)
    /\ UNCHANGED << data, allowNonEmpty, info, idx, pre, installVars, callVars, cliVars, config >>

\* writeVSCodeExtensions: marshal and write .vscode/extensions.json.
VsWriteJson(p) ==
    /\ pc[p] = "vsWriteJson"
    /\ \E io \in IoOutcomes :
        /\ Advance(p, WriteFile(fs, extensionsJsonPath,
                                ExtensionsJson(data[p].VSCodeExtensions), io,
                                ErrWrite(".vscode/extensions.json")),
                   "extensions.json", "done")
        /\ Faulted(p, io)
    /\ UNCHANGED << data, allowNonEmpty, info, idx, pre, installVars, callVars, cliVars, config >>

\* The steps of an invocation once it is called.
ScaffoldBody(p) ==
    \/ PrepareStat(p)
    \/ PrepareParent(p)
    \/ PrepareMkdir(p)
    \/ PrepareExisting(p)
    \/ AutoYear(p)
    \/ RenderCore(p)
    \/ License(p)
    \/ DcMkdirAll(p)
    \/ DcDockerfile(p)
    \/ DcSetupScript(p)
    \/ DcWriteJson(p)
    \/ VsMkdirAll(p)
    \/ VsWriteJson(p)

ScaffoldStep(p) == Begin(p) \/ ScaffoldBody(p)

Next == \E p \in Callers : ScaffoldStep(p)

Spec == Init /\ [][Next]_vars

\* -------------------------------------------------------------------------
\* Scaffold run a second time by the same caller
\* -------------------------------------------------------------------------

\* The empty destinations: the path absent below its parent, or an empty
\* directory.
FreshTrees == { EmptyTree(DirNode, Absent), EmptyTree(DirNode, DirNode) }

\* The destinations of the first of two calls.
RerunTrees == FreshTrees \cup { TreeOf({ unrelatedPath }, [ q \in { unrelatedPath } |-> "file" ]) }

InitRerun == fs \in RerunTrees /\ InitVars /\ InitCli

\* The configurations that are run twice: one image, no license or one of the
\* two license texts, chat continuity only with the dev container.
RerunDatas ==
    { d \in TemplateDatas :
        /\ d.DevContainerImage = "go:2-1.25-trixie"
        /\ d.License \in { "none", "MIT", "Apache-2.0" }
        /\ d.AIChatContinuity => d.IncludeDevContainer }

\* A new year begins between the two calls.
YearPasses ==
    /\ pc[1] = "done" /\ pc[2] = "idle"
    /\ clock + 1 \in ClockYears
    /\ clock' = clock + 1
    /\ UNCHANGED << fs, scaffoldVars, installVars, left, cliVars >>

\* The caller, the first call having returned nil, turns to another, empty
\* destination to repeat it; what the first call left in its destination is
\* kept in left.
FreshDestination ==
    /\ pc[1] = "done" /\ pc[2] = "idle"
    /\ err[1] = Nil
    /\ left = << >>
    /\ left' = << fs >>
    /\ fs' \in FreshTrees
    /\ UNCHANGED << scaffoldVars, installVars, clock, cliVars >>

\* Scaffold is called again, as invocation p, with the TemplateData value the
\* caller passed to invocation q.
BeginAgain(q, p) ==
    /\ pc[q] = "done" /\ pc[p] = "idle"
    /\ \E a \in BOOLEAN : allowNonEmpty' = [ allowNonEmpty EXCEPT ![p] = a ]
    /\ data' = [ data EXCEPT ![p] = config[q] ]
    /\ config' = [ config EXCEPT ![p] = config[q] ]
    /\ pc' = [ pc EXCEPT ![p] = "prepare" ]
    /\ pre' = [ pre EXCEPT ![p] = fs ]
    /\ UNCHANGED << fs, info, idx, err, ioFault, ran, installVars, callVars, cliVars >>

NextRerun ==
    \/ Call(1, RerunDatas)
    \/ ScaffoldBody(1)
    \/ YearPasses
    \/ FreshDestination
    \/ BeginAgain(1, 2)
    \/ ScaffoldBody(2)

SpecRerun == InitRerun /\ [][NextRerun]_vars

\* -------------------------------------------------------------------------
\* installSkillsWithReport
\* -------------------------------------------------------------------------

ErrTargetMissing == << "target", "directory", "<targetDir>", "does", "not", "exist" >>

ErrTargetNotDir == << "<targetDir>", "is", "not", "a", "directory" >>

\* The position of a document name in byte order, the order in which
\* fs.ReadDir lists the embedded documents.
NameRank(name) == CHOOSE i \in 1..Len(skillEntries) : skillEntries[i] = name

RECURSIVE InsertSorted(_, _)
InsertSorted(name, sorted) ==
    IF sorted = << >> THEN << name >>
    ELSE IF NameRank(name) <= NameRank(Head(sorted)) THEN << name >> \o sorted
    ELSE << Head(sorted) >> \o InsertSorted(name, Tail(sorted))

\* sort.Strings
RECURSIVE SortStrings(_)
SortStrings(names) ==
    IF names = << >> THEN << >>
    ELSE InsertSorted(Head(names), SortStrings(Tail(names)))

\* The installer is called; between two calls the user may have edited files.
InstallBegin ==
    /\ ipc \in { "idle", "done" }
    /\ installs < MaxInstalls
    /\ ipc' = "stat"
    /\ installs' = installs + 1
    /\ report' = << >>
    /\ ierr' = Nil
    /\ ientry' = 0
    /\ ipre' = fs
    /\ priorOk' = (installs > 0 /\ ierr = Nil)
    /\ editsBefore' = edited
    /\ edited' = {}
    /\ UNCHANGED << fs, scaffoldVars, callVars, cliVars >>

\* info, err := os.Stat(targetDir): the target must be a directory.
InstallStat ==
    /\ ipc = "stat"
    /\ LET e == IF Stat(fs, targetDir) \in { "ENOENT", "ENOTDIR" } THEN ErrTargetMissing
                ELSE IF Stat(fs, targetDir) # "dir" THEN ErrTargetNotDir
                ELSE Nil
       IN  IF e # Nil THEN ipc' = "done" /\ ierr' = e
           ELSE ipc' = "mkdirAll" /\ ierr' = ierr
    /\ UNCHANGED << fs, scaffoldVars, callVars, cliVars, ientry, report, ipre, installs, priorOk, edited,
                    editsBefore >>

\* os.MkdirAll(skillsDir, 0755), then the embedded entries are listed.
InstallMkdirAll ==
    /\ ipc = "mkdirAll"
    /\ \E mk \in (IF IsDir(fs, skillsDir) THEN { "ok" } ELSE MkdirOutcomes) :
        LET r == MkdirAll(fs, skillsDir, mk, ErrMkdirAll("skills")) IN
        /\ fs' = r.fs
        /\ IF r.err # Nil THEN ipc' = "done" /\ ierr' = r.err /\ ientry' = ientry
           ELSE ipc' = "entries" /\ ierr' = ierr /\ ientry' = 1
    /\ UNCHANGED << scaffoldVars, callVars, cliVars, report, ipre, installs, priorOk, edited, editsBefore >>

\* SkipExisting with every document written.
SkipNothing(f, outputPath) == FALSE

\* SkipExisting that skips only a file still holding the embedded content.
SkipUnmodified(f, outputPath) ==
    f[outputPath] = File(<< "embedded", outputPath[Len(outputPath)] >>)

\* The installer leaves the file at outputPath alone: os.Stat returned no error.
SkipExisting(f, outputPath) == Stat(f, outputPath) \in { "file", "dir" }

\* One iteration of the loop over the embedded entries.
InstallEntry ==
    /\ ipc = "entries"
    /\ LET name == skillEntries[ientry]
           outputPath == Join(skillsDir, name)
           last == ientry >= Len(skillEntries)
       IN  IF SkipExisting(fs, outputPath)
           THEN /\ report' = Append(report, name)
                /\ fs' = fs
                /\ ierr' = ierr
                /\ ipc' = IF last THEN "sort" ELSE "entries"
                /\ ientry' = IF last THEN ientry ELSE ientry + 1
           ELSE \E io \in IoOutcomes :
                LET r == WriteFile(fs, outputPath, Embedded(name), io, ErrWrite(name)) IN
                /\ report' = report
                /\ fs' = r.fs
                /\ IF r.err # Nil
                   THEN ipc' = "done" /\ ierr' = r.err /\ ientry' = ientry
                   ELSE /\ ierr' = ierr
                        /\ ipc' = IF last THEN "sort" ELSE "entries"
                        /\ ientry' = IF last THEN ientry ELSE ientry + 1
    /\ UNCHANGED << scaffoldVars, callVars, cliVars, ipre, installs, priorOk, edited, editsBefore >>

\* sort.Strings(report.Skipped); return report, nil.
InstallReturn ==
    /\ ipc = "sort"
    /\ report' = SortStrings(report)
    /\ ipc' = "done"
    /\ UNCHANGED << fs, scaffoldVars, callVars, cliVars, ientry, ierr, ipre, installs, priorOk, edited,
                    editsBefore >>

\* The user edits an installed or own skill file while the installer is not
\* running; ipc = "done" is the state in which the installer has just returned.
UserEdit ==
    /\ ipc \in { "idle", "done" }
    /\ \E path \in SkillPaths :
        /\ IsFile(fs, path)
        /\ fs[path] # File(EditedContent)
        /\ fs' = [ fs EXCEPT ![path] = File(EditedContent) ]
        /\ edited' = edited \cup { path }
    /\ ipc' = "idle"
    /\ UNCHANGED << scaffoldVars, callVars, cliVars, ientry, report, ierr, ipre, installs, priorOk,
                    editsBefore >>

NextInstall ==
    \/ InstallBegin
    \/ InstallStat
    \/ InstallMkdirAll
    \/ InstallEntry
    \/ InstallReturn
    \/ UserEdit

SpecInstall == InitInstall /\ [][NextInstall]_vars


\* -------------------------------------------------------------------------
\* The command line: parseArgs, formatErrorOutput, main
\* -------------------------------------------------------------------------

\* An error value is the chain errors.As walks: the error itself first, then
\* what it wraps, each with its dynamic type and its message.
NoError == << >>

usageError(msg) == << [ type |-> "usageError", msg |-> msg ] >>

ErrorsNew(msg) == << [ type |-> "errorString", msg |-> msg ] >>

\* fmt.Errorf(msg + ": %w", cause)
Wrap(msg, cause) == << [ type |-> "wrapError", msg |-> msg ] >> \o cause

\* errors.As(e, &target) for a target of the given type.
ErrorsAs(e, type) == \E i \in 1..Len(e) : e[i].type = type

\* err.Error(): the messages along the chain, joined by ": ".
ErrorText(e) == [ i \in 1..Len(e) |-> e[i].msg ]

Version == "dev"

\* displayVersion: Version without a leading "v".
displayVersion == Version

\* renderErrorBanner, as the pieces Sprintf joins after the leading emoji.
renderErrorBanner(version, message) == << " Seed ", version, " - Error: " >> \o message

formatErrorOutput(version, e) ==
    renderErrorBanner(version, ErrorText(e))
        \o (IF ErrorsAs(e, "usageError") THEN << "\n\nUsage: seed <directory>" >>
            ELSE << >>)

HelpFlags == { "--help", "-h", "help" }

VersionFlags == { "--version", "-v" }

\* showUsage() or the version line, then os.Exit(0): parseArgs does not return.
Exits(text) == [ exited |-> TRUE, stdout |-> << text >>, dir |-> "", err |-> NoError ]

Returns(dir, e) == [ exited |-> FALSE, stdout |-> << >>, dir |-> dir, err |-> e ]

\* parseArgs keeping a leading --verbose among the arguments it counts.
parseArgsKeepingVerbose(a) ==
    IF a = << >> THEN Exits("usage")
    ELSE IF a[1] \in HelpFlags THEN Exits("usage")
    ELSE IF a[1] \in VersionFlags THEN Exits("version")
    ELSE IF Len(a) > 1 THEN Returns("", usageError("too many arguments"))
    ELSE Returns(a[1], NoError)

parseArgs(a) ==
    IF a = << >> THEN Exits("usage")
    ELSE IF a[1] \in HelpFlags THEN Exits("usage")
    ELSE IF a[1] \in VersionFlags THEN Exits("version")
    ELSE LET rest == IF a[1] = "--verbose" THEN Tail(a) ELSE a IN
         IF Len(rest) = 0 THEN Returns("", usageError("missing directory argument"))
         ELSE IF Len(rest) > 1 THEN Returns("", usageError("too many arguments"))
         ELSE Returns(rest[1], NoError)

\* The longest argument list tried.
MaxArgs == 3

ArgWords == { "--verbose", "--help", "-h", "help", "--version", "-v", "proj", "extra" }

ArgLists == UNION { [ 1..n -> ArgWords ] : n \in 0..MaxArgs }

\* What run can return after parseArgs returned a directory.
LaterErrors ==
    { NoError,
      ErrorsNew("aborted -> directory is not empty"),
      Wrap("failed to scaffold project", ErrorsNew("directory is not empty")) }

InitArgs ==
    /\ fs = EmptyTree(DirNode, Absent)
    /\ InitVars
    /\ args \in ArgLists
    /\ InitMain
    /\ input = << >>
    /\ verdict = Unchecked
    /\ InitRun

\* run, step 1: targetDir, err := parseArgs().
ParseArgs ==
    /\ rpc = "start"
    /\ parsed' = parseArgs(args)
    /\ rpc' = IF parsed'.exited THEN "exited" ELSE "parsed"
    /\ UNCHANGED << fs, scaffoldVars, installVars, callVars, args, rerr, stderr, input, verdict, runVars >>

\* run: if err != nil { return err }.
ReturnUsageError ==
    /\ rpc = "parsed"
    /\ parsed.err # NoError
    /\ rerr' = parsed.err
    /\ rpc' = "returned"
    /\ UNCHANGED << fs, scaffoldVars, installVars, callVars, args, parsed, stderr, input, verdict, runVars >>

\* The rest of run, for what it returns to main.
ReturnLater ==
    /\ rpc = "parsed"
    /\ parsed.err = NoError
    /\ rerr' \in LaterErrors
    /\ rpc' = "returned"
    /\ UNCHANGED << fs, scaffoldVars, installVars, callVars, args, parsed, stderr, input, verdict, runVars >>

\* main: print formatErrorOutput and exit 1 where run returned an error.
MainReports ==
    /\ rpc = "returned"
    /\ stderr' = IF rerr = NoError THEN << >>
                 ELSE formatErrorOutput(displayVersion, rerr)
    /\ rpc' = "exited"
    /\ UNCHANGED << fs, scaffoldVars, installVars, callVars, args, parsed, rerr, input, verdict, runVars >>

NextArgs == ParseArgs \/ ReturnUsageError \/ ReturnLater \/ MainReports

SpecArgs == InitArgs /\ [][NextArgs]_vars


\* -------------------------------------------------------------------------
\* The wizard's validators
\* -------------------------------------------------------------------------

\* A string is the sequence of its runs: a character and how many times it
\* is repeated.  The characters: a space, an ASCII letter, and the letter
\* U+00E9, which UTF-8 encodes in two bytes.
Chars == { " ", "a", "U+00E9" }

\* The number of bytes the UTF-8 encoding of a character takes.
Utf8Len(c) == IF c = "U+00E9" THEN 2 ELSE 1

\* unicode.IsSpace
IsSpace(c) == c = " "

\* len(s) of a Go string: the number of its bytes.
RECURSIVE len(_)
len(str) == IF str = << >> THEN 0
            ELSE Head(str).n * Utf8Len(Head(str).c) + len(Tail(str))

RECURSIVE TrimLeft(_)
TrimLeft(str) ==
    IF str # << >> /\ IsSpace(Head(str).c) THEN TrimLeft(Tail(str)) ELSE str

RECURSIVE TrimRight(_)
TrimRight(str) ==
    IF str # << >> /\ IsSpace(str[Len(str)].c)
    THEN TrimRight(SubSeq(str, 1, Len(str) - 1)) ELSE str

\* strings.TrimSpace
TrimSpace(str) == TrimRight(TrimLeft(str))

\* The limit validateProjectName compares with.
NameLimit == 100

\* The limit validateDescription compares with.
DescriptionLimit == 500

validateProjectName(str) ==
    LET trimmed == TrimSpace(str) IN
    IF len(trimmed) = 0 THEN ErrorsNew("project name is required")
    ELSE IF len(trimmed) > NameLimit
    THEN ErrorsNew("project name is too long (max 100 characters)")
    ELSE NoError

validateDescription(str) ==
    LET trimmed == TrimSpace(str) IN
    IF len(trimmed) = 0 THEN ErrorsNew("description is required")
    ELSE IF len(trimmed) > DescriptionLimit
    THEN ErrorsNew("description is too long (max 500 characters)")
    ELSE NoError

\* The most runs an input has.
MaxRuns == 3

RunLengths == { 1, NameLimit, NameLimit + 1, DescriptionLimit, DescriptionLimit + 1 }

Runs == [ c : Chars, n : RunLengths ]

Inputs == UNION { [ 1..k -> Runs ] : k \in 0..MaxRuns }

InitValidate ==
    /\ fs = EmptyTree(DirNode, Absent)
    /\ InitVars
    /\ args = << >>
    /\ InitMain
    /\ input \in Inputs
    /\ verdict = Unchecked
    /\ InitRun

\* The form calls validateProjectName on the text of the name field.
ValidateProjectName ==
    /\ "name" \notin verdict.checked
    /\ verdict' = [ verdict EXCEPT !.checked = @ \cup { "name" },
                                   !.name = validateProjectName(input) ]
    /\ UNCHANGED << fs, scaffoldVars, installVars, callVars, args, parsed, rpc, rerr,
                    stderr, input, runVars >>

\* The form calls validateDescription on the text of the description field.
ValidateDescription ==
    /\ "description" \notin verdict.checked
    /\ verdict' = [ verdict EXCEPT !.checked = @ \cup { "description" },
                                   !.description = validateDescription(input) ]
    /\ UNCHANGED << fs, scaffoldVars, installVars, callVars, args, parsed, rpc, rerr,
                    stderr, input, runVars >>

NextValidate == ValidateProjectName \/ ValidateDescription

SpecValidate == InitValidate /\ [][NextValidate]_vars


\* -------------------------------------------------------------------------
\* run: the phases of the command line tool
\* -------------------------------------------------------------------------

\* What the wizard can return: the configurations with one image, no license
\* or the MIT text, chat continuity only with the dev container, and either
\* answer to the question about git.
WizardDatas ==
    { w \in [ ProjectName : ProjectNames, Description : Descriptions,
              License : { "none", "MIT" }, InitGit : BOOLEAN,
              IncludeDevContainer : BOOLEAN, DevContainerImage : { "go:2-1.25-trixie" },
              AIChatContinuity : BOOLEAN, AgentExtensions : ExtensionLists ] :
        w.AIChatContinuity => w.IncludeDevContainer }

\* WizardData.ToTemplateData: Year is left at its zero value.
ToTemplateData(w) ==
    [ ProjectName |-> w.ProjectName, Description |-> w.Description,
      IncludeDevContainer |-> w.IncludeDevContainer,
      DevContainerImage |-> w.DevContainerImage,
      AIChatContinuity |-> w.AIChatContinuity,
      VSCodeExtensions |-> w.AgentExtensions,
      License |-> w.License, Year |-> 0 ]

\* The commands of initGitRepo, by their labels.
GitCommands == << "git init", "git add .", "git commit" >>

\* The answers the confirmation prompt can end with: confirm set, confirm
\* not set, or the prompt aborted.
PromptAnswers == { "yes", "no", "cancel" }

\* checkTargetDir taking every answer but an abort of the prompt for a yes.
ConfirmedUnlessCancelled(ans) == ans # "cancel"

\* checkTargetDir returns true: the prompt ran to its end with confirm set.
Confirmed(ans) == ans = "yes"

\* run starting git whatever the wizard returned.
RunsGitAlways(w) == TRUE

\* run, step 8: if wizardData.InitGit.
RunsGit(w) == w.InitGit

\* The command lines run is started with.
RunArgLists == { << "proj" >>, << "proj", "extra" >> }

\* The trees run is started in: the target absent with or without its
\* parent, a regular file, an empty directory, a directory with one entry.
RunTrees ==
    { EmptyTree(Absent, Absent), EmptyTree(DirNode, Absent),
      EmptyTree(DirNode, File(UserContent)), EmptyTree(DirNode, DirNode),
      TreeOf({ unrelatedPath }, [ q \in { unrelatedPath } |-> "file" ]),
      TreeOf({ Join(targetDir, TrimSuffixTmpl(coreTemplates[1])) }, [ q \in { Join(targetDir, TrimSuffixTmpl(coreTemplates[1])) } |-> "file" ]) }

InitSpecRun ==
    /\ fs \in RunTrees
    /\ InitVars
    /\ args \in RunArgLists
    /\ InitMain
    /\ input = << >>
    /\ verdict = Unchecked
    /\ InitRun

\* run returns e.
Fails(e) == rerr' = e /\ rpc' = "returned"

\* run goes on with the phase next.
GoesOn(next) == rerr' = rerr /\ rpc' = next

Starts(phase) == log' = Append(log, phase)

\* run, step 2: targetDirExisted, err := targetDirectoryExists(targetDir).
TargetDirectoryExists ==
    /\ rpc = "parsed"
    /\ parsed.err = NoError
    /\ Starts("targetDirectoryExists")
    /\ \E io \in { "ok", "fail" } :
        LET st == Stat(fs, targetDir) IN
        IF io = "fail" \/ st = "ENOTDIR"
        THEN Fails(Wrap("cannot access <targetDir>", ErrorsNew("stat")))
        ELSE IF st = "file"
        THEN Fails(ErrorsNew("<targetDir> exists but is not a directory"))
        ELSE GoesOn("checkTargetDir")
    /\ UNCHANGED << fs, scaffoldVars, installVars, callVars, args, parsed, stderr, input,
                    verdict, answer, allowed, wizard, git, started >>

\* checkTargetDir where os.Stat(targetDir) reports that nothing is there:
\* the parent must be a directory in which a temporary file can be created.
\* The file is closed and removed, and the error of os.Remove is dropped.
CheckAbsentTarget ==
    LET parent == Stat(fs, parentDir) IN
    IF parent = "ENOENT"
    THEN Fails(ErrorsNew("parent directory <parentDir> does not exist"))
         /\ UNCHANGED << fs, answer, allowed >>
    ELSE IF parent # "dir"
    THEN Fails(ErrorsNew("parent path <parentDir> is not a directory"))
         /\ UNCHANGED << fs, answer, allowed >>
    ELSE \E probe \in { "createFail", "removed", "left" } :
            /\ IF probe = "createFail"
               THEN Fails(Wrap("cannot write to parent directory <parentDir>",
                               ErrorsNew("create")))
               ELSE GoesOn("snapshotBefore")
            /\ fs' = IF probe = "left"
                     THEN [ fs EXCEPT ![probePath] = File(<< "probe" >>) ]
                     ELSE fs
            /\ UNCHANGED << answer, allowed >>

\* checkTargetDir where the target is a directory: an empty one needs no
\* override; for any other the user is asked.
CheckExistingTarget ==
    /\ fs' = fs
    /\ \E io \in { "ok", "fail" } :
        IF io = "fail"
        THEN Fails(Wrap("cannot read <targetDir>", ErrorsNew("readdir")))
             /\ UNCHANGED << answer, allowed >>
        ELSE IF ReadDir(fs, targetDir) = {}
        THEN GoesOn("snapshotBefore") /\ UNCHANGED << answer, allowed >>
        ELSE \E ans \in PromptAnswers :
                /\ answer' = ans
                /\ IF ans = "cancel"
                   THEN Fails(Wrap("cancelled", ErrorsNew("user aborted")))
                        /\ allowed' = allowed
                   ELSE IF ~Confirmed(ans)
                   THEN Fails(ErrorsNew("aborted -> directory is not empty"))
                        /\ allowed' = allowed
                   ELSE GoesOn("snapshotBefore") /\ allowed' = TRUE

\* run, step 3: allowNonEmpty, err := checkTargetDir(targetDir).
CheckTargetDir ==
    /\ rpc = "checkTargetDir"
    /\ Starts("checkTargetDir")
    /\ LET st == Stat(fs, targetDir) IN
       IF st = "ENOENT" THEN CheckAbsentTarget
       ELSE IF st = "ENOTDIR"
       THEN Fails(Wrap("cannot access <targetDir>", ErrorsNew("stat")))
            /\ UNCHANGED << fs, answer, allowed >>
       ELSE IF st = "file"
       THEN Fails(ErrorsNew("<targetDir> exists but is not a directory"))
            /\ UNCHANGED << fs, answer, allowed >>
       ELSE CheckExistingTarget
    /\ UNCHANGED << scaffoldVars, installVars, callVars, args, parsed, stderr, input,
                    verdict, wizard, git, started >>

\* snapshotProjectFiles(targetDir) between two phases: it reads the tree, and
\* fails where the target is no directory or the walk meets an error.
Snapshot(at, msg, next) ==
    /\ rpc = at
    /\ Starts("snapshotProjectFiles")
    /\ \E io \in { "ok", "fail" } :
        IF io = "fail" \/ Stat(fs, targetDir) \in { "file", "ENOTDIR" }
        THEN Fails(Wrap(msg, ErrorsNew("walk")))
        ELSE GoesOn(next)
    /\ UNCHANGED << fs, scaffoldVars, installVars, callVars, args, parsed, stderr, input,
                    verdict, answer, allowed, wizard, git, started >>

SnapshotBefore ==
    Snapshot("snapshotBefore", "failed to inspect existing files", "RunWizard")

\* run, step 4: wizardData, err := RunWizard(filepath.Base(targetDir)).
RunWizard ==
    /\ rpc = "RunWizard"
    /\ Starts("RunWizard")
    /\ \/ /\ wizard' = [ state |-> "cancelled", data |-> ZeroWizardData ]
          /\ Fails(Wrap("wizard cancelled", ErrorsNew("user aborted")))
       \/ /\ \E w \in WizardDatas : wizard' = [ state |-> "done", data |-> w ]
          /\ GoesOn("Scaffold")
    /\ UNCHANGED << fs, scaffoldVars, installVars, callVars, args, parsed, stderr, input,
                    verdict, answer, allowed, git, started >>

\* run, step 6: scaffolder.Scaffold(targetDir, templateData, allowNonEmpty).
RunScaffold ==
    /\ rpc = "Scaffold"
    /\ pc[1] = "idle"
    /\ Starts("Scaffold")
    /\ data' = [ data EXCEPT ![1] = ToTemplateData(wizard.data) ]
    /\ config' = [ config EXCEPT ![1] = ToTemplateData(wizard.data) ]
    /\ allowNonEmpty' = [ allowNonEmpty EXCEPT ![1] = allowed ]
    /\ pc' = [ pc EXCEPT ![1] = "prepare" ]
    /\ pre' = [ pre EXCEPT ![1] = fs ]
    /\ UNCHANGED << fs, info, idx, err, ioFault, ran, installVars, callVars, args, parsed,
                    rpc, rerr, stderr, input, verdict, answer, allowed, wizard, git,
                    started >>

\* Scaffold has returned to run.
ScaffoldReturns ==
    /\ rpc = "Scaffold"
    /\ pc[1] = "done"
    /\ IF err[1] # Nil
       THEN Fails(Wrap("failed to scaffold project", ErrorsNew(err[1])))
       ELSE GoesOn("snapshotScaffolded")
    /\ UNCHANGED << fs, scaffoldVars, installVars, callVars, args, parsed, stderr, input,
                    verdict, runVars >>

SnapshotScaffolded ==
    Snapshot("snapshotScaffolded", "failed to inspect scaffolded files",
             "installSkillsWithReport")

\* run, step 7: _, err = installSkillsWithReport(targetDir).
RunInstall ==
    /\ rpc = "installSkillsWithReport"
    /\ ipc = "idle"
    /\ Starts("installSkillsWithReport")
    /\ ipc' = "stat"
    /\ installs' = installs + 1
    /\ ipre' = fs
    /\ UNCHANGED << fs, scaffoldVars, callVars, ientry, report, ierr, priorOk, edited,
                    editsBefore, args, parsed, rpc, rerr, stderr, input, verdict, answer,
                    allowed, wizard, git, started >>

\* installSkillsWithReport has returned to run.
InstallReturns ==
    /\ rpc = "installSkillsWithReport"
    /\ ipc = "done"
    /\ IF ierr # Nil
       THEN Fails(Wrap("failed to install skills", ErrorsNew(ierr)))
       ELSE GoesOn("snapshotCreated")
    /\ UNCHANGED << fs, scaffoldVars, installVars, callVars, args, parsed, stderr, input,
                    verdict, runVars >>

\* The last snapshot, then step 8 (InitGit) or "Done.".
SnapshotCreated ==
    \/ RunsGit(wizard.data)
       /\ Snapshot("snapshotCreated", "failed to inspect created files", "initGitRepo")
    \/ ~RunsGit(wizard.data)
       /\ Snapshot("snapshotCreated", "failed to inspect created files", "Done.")

\* initGitRepo: the commands run in order up to the first that fails; git
\* init leaves the repository directory in the target.
InitGitRepo ==
    /\ rpc = "initGitRepo"
    /\ Starts("initGitRepo")
    /\ \E k \in 0..Len(GitCommands) :
        /\ git' = SubSeq(GitCommands, 1, k)
        /\ fs' = IF k >= 1 /\ ~Exists(fs, gitDir)
                 THEN [ fs EXCEPT ![gitDir] = DirNode ] ELSE fs
        /\ IF k < Len(GitCommands)
           THEN Fails(Wrap("failed to initialize git",
                           ErrorsNew(<< GitCommands[k + 1], "failed" >>)))
           ELSE GoesOn("Done.")
    /\ UNCHANGED << scaffoldVars, installVars, callVars, args, parsed, stderr, input,
                    verdict, answer, allowed, wizard, started >>

\* fmt.Println("Done."); return nil.
Done ==
    /\ rpc = "Done."
    /\ Starts("Done.")
    /\ Fails(NoError)
    /\ UNCHANGED << fs, scaffoldVars, installVars, callVars, args, parsed, stderr, input,
                    verdict, answer, allowed, wizard, git, started >>

NextRun ==
    \/ ParseArgs
    \/ ReturnUsageError
    \/ TargetDirectoryExists
    \/ CheckTargetDir
    \/ SnapshotBefore
    \/ RunWizard
    \/ RunScaffold
    \/ ScaffoldBody(1)
    \/ ScaffoldReturns
    \/ SnapshotScaffolded
    \/ RunInstall
    \/ InstallStat
    \/ InstallMkdirAll
    \/ InstallEntry
    \/ InstallReturn
    \/ InstallReturns
    \/ SnapshotCreated
    \/ InitGitRepo
    \/ Done
    \/ MainReports

SpecRun == InitSpecRun /\ [][NextRun]_vars


\* -------------------------------------------------------------------------
\* Scaffold calls and installer calls one after another
\* -------------------------------------------------------------------------

\* Every conditional artifact on, and every conditional artifact off.
SequenceDatas ==
    { d \in TemplateDatas :
        /\ d.DevContainerImage = "go:2-1.25-trixie"
        /\ d.Year = 0
        /\ \/ /\ d.License = "MIT" /\ d.IncludeDevContainer /\ d.AIChatContinuity
              /\ d.VSCodeExtensions # << >>
           \/ /\ d.License = "none" /\ ~d.IncludeDevContainer /\ ~d.AIChatContinuity
              /\ d.VSCodeExtensions = << >> }

InitSequence == fs \in FreshTrees /\ InitVars /\ InitCli

\* Neither a Scaffold call nor the installer is under way.
Quiet == \A p \in Procs : pc[p] \in { "idle", "done" } /\ ipc \in { "idle", "done" }

\* The first Scaffold call, before or after a run of the installer.
FirstCall == Quiet /\ Call(1, SequenceDatas)

\* The second Scaffold call, made after the first has returned.
SecondCall == Quiet /\ pc[1] = "done" /\ Call(2, SequenceDatas)

\* The installer is called once: before, between or after the Scaffold calls.
InstallCall == Quiet /\ installs = 0 /\ InstallBegin

NextSequence ==
    \/ FirstCall
    \/ ScaffoldBody(1)
    \/ SecondCall
    \/ ScaffoldBody(2)
    \/ InstallCall
    \/ InstallStat
    \/ InstallMkdirAll
    \/ InstallEntry
    \/ InstallReturn

SpecSequence == InitSequence /\ [][NextSequence]_vars


\* -------------------------------------------------------------------------
\* Two Scaffold invocations at the same time on one destination
\* -------------------------------------------------------------------------

\* The configuration each invocation is called with: two project names, the
\* dev container with chat continuity and extensions for the first only, a
\* license text for the second only.
ConcurrentData(p) ==
    [ ProjectName |-> IF p = 1 THEN "demo" ELSE "My App",
      Description |-> "x",
      IncludeDevContainer |-> p = 1, DevContainerImage |-> "go:2-1.25-trixie",
      AIChatContinuity |-> p = 1,
      VSCodeExtensions |-> IF p = 1 THEN << "c.d", "a.b" >> ELSE << >>,
      License |-> IF p = 1 THEN "none" ELSE "MIT", Year |-> 2025 ]

InitConcurrent == fs \in FreshTrees /\ InitVars /\ InitCli

\* A step of either invocation: the calls of the two interleave freely.
NextConcurrent ==
    \E p \in Procs : Call(p, { ConcurrentData(p) }) \/ ScaffoldBody(p)

SpecConcurrent == InitConcurrent /\ [][NextConcurrent]_vars

\* -------------------------------------------------------------------------
\* Properties of Scaffold (checked under Spec)
\* -------------------------------------------------------------------------

Returned(p) == pc[p] = "done"

\* The destination was an existing directory with at least one entry.
WasNonEmpty(p) == IsDir(pre[p], targetDir) /\ ReadDir(pre[p], targetDir) # {}

\* The destination was absent, or an existing directory without entries.
WasEmptyOrAbsent(p) ==
    \/ ~Exists(pre[p], targetDir)
    \/ IsDir(pre[p], targetDir) /\ ReadDir(pre[p], targetDir) = {}

CoreOutput(i) == Join(targetDir, TrimSuffixTmpl(coreTemplates[i]))

C2_ExistingFilesKept ==
    \A p \in Procs :
        (Returned(p) /\ allowNonEmpty[p] /\ ~ioFault[p])
            => \A q \in EntryPaths : IsFile(pre[p], q) => fs[q] = pre[p][q]

\* C3: with the override on a directory holding unrelated entries, every
\* entry that is not an output of Scaffold is left as it was; and where the
\* directory held nothing but such entries and no call of the invocation was
\* failed by the environment, Scaffold succeeds and all seven core files are
\* there, rendered from the data.
C3_UnrelatedSurvive ==
    \A p \in Procs :
        (Returned(p) /\ allowNonEmpty[p] /\ WasNonEmpty(p))
            => /\ \A q \in EntryPaths \ ScaffoldOutputs : fs[q] = pre[p][q]
               /\ ((\A q \in ScaffoldOutputs : ~Exists(pre[p], q)) /\ ~ioFault[p])
                    => /\ err[p] = Nil
                       /\ \A i \in 1..Len(coreTemplates) :
                            fs[CoreOutput(i)] = File(Rendered(coreTemplates[i], data[p]))

C3_Witness ==
    /\ Returned(1) /\ allowNonEmpty[1] /\ WasNonEmpty(1)
    /\ \A q \in ScaffoldOutputs : ~Exists(pre[1], q)
    /\ err[1] = Nil
    /\ fs[unrelatedPath] = File(UserContent)
    /\ \A i \in 1..Len(coreTemplates) : IsFile(fs, CoreOutput(i))

\* C4 as stated: on a path that does not exist and whose parent does not
\* exist or is not a directory, Scaffold fails with an error containing
\* "parent directory" and creates nothing.
C4_AsStated ==
    \A p \in Procs :
        (Returned(p) /\ ~Exists(pre[p], targetDir) /\ ~IsDir(pre[p], parentDir))
            => /\ Contains(err[p], << "parent", "directory" >>)
               /\ fs = pre[p]

\* C4 as amended: where the parent does not exist, Scaffold fails with an
\* error containing "parent directory"; where the parent is a regular file
\* it fails with the "failed to check directory" or the "failed to create
\* directory" error, neither containing "parent directory"; in both cases
\* nothing is created.  Where the parent is a directory, prepareDirectory
\* returns having created the destination directory and nothing else, or
\* returns the "failed to create directory" error having created nothing.
C4_ParentMustExist ==
    \A p \in Procs :
        /\ (Returned(p) /\ ~Exists(pre[p], targetDir) /\ ~Exists(pre[p], parentDir))
              => /\ Contains(err[p], << "parent", "directory" >>)
                 /\ fs = pre[p]
        /\ (Returned(p) /\ ~Exists(pre[p], targetDir) /\ IsFile(pre[p], parentDir))
              => /\ err[p] \in { ErrCheck, ErrMkdir }
                 /\ ~Contains(err[p], << "parent", "directory" >>)
                 /\ fs = pre[p]
        /\ (pc[p] = "year" /\ ~Exists(pre[p], targetDir))
              => /\ IsDir(pre[p], parentDir)
                 /\ fs = [ pre[p] EXCEPT ![targetDir] = DirNode ]
        /\ (Returned(p) /\ ~Exists(pre[p], targetDir) /\ err[p] = ErrMkdir)
              => fs = pre[p]

C4_Witness ==
    /\ Returned(1)
    /\ ~Exists(pre[1], targetDir) /\ IsFile(pre[1], parentDir)
    /\ err[1] = ErrCheck
    /\ fs = pre[1]

\* C5: on a destination that is a regular file Scaffold fails, with and
\* without the override, with an error containing "not a directory", and
\* the file system is left exactly as it was.
C5_FileTargetRejected ==
    \A p \in Procs :
        (Returned(p) /\ IsFile(pre[p], targetDir))
            => /\ Contains(err[p], << "not", "a", "directory" >>)
               /\ fs = pre[p]

C5_Witness ==
    /\ Returned(1) /\ IsFile(pre[1], targetDir) /\ allowNonEmpty[1]
    /\ err[1] = ErrNotDir
    /\ fs[targetDir] = File(UserContent)

\* The steps of a Scaffold call in the order C6 states them, for data d.
ExpectedSteps(d) ==
    << "prepareDirectory" >> \o coreTemplates \o << "scaffoldLicense" >>
    \o (IF d.IncludeDevContainer
        THEN << "MkdirAll(.devcontainer)", "Dockerfile.tmpl" >>
             \o (IF d.AIChatContinuity THEN << "setup.sh" >> ELSE << >>)
             \o << "devcontainer.json" >>
        ELSE << >>)
    \o (IF d.IncludeDevContainer /\ d.VSCodeExtensions # << >>
        THEN << "MkdirAll(.vscode)", "extensions.json" >>
        ELSE << >>)

\* The path a step creates or writes.
StepOutput(step) ==
    CASE step = "prepareDirectory"        -> targetDir
      [] step = "scaffoldLicense"         -> licensePath
      [] step = "MkdirAll(.devcontainer)" -> dcDir
      [] step = "Dockerfile.tmpl"         -> dockerfilePath
      [] step = "setup.sh"                -> scriptPath
      [] step = "devcontainer.json"       -> devcontainerJsonPath
      [] step = "MkdirAll(.vscode)"       -> vscodDir
      [] step = "extensions.json"         -> extensionsJsonPath
      [] OTHER                            -> Join(targetDir, TrimSuffixTmpl(step))

\* What a step that succeeded leaves at its output, given what was there.
StepResult(step, d, before) ==
    CASE step \in { "prepareDirectory", "MkdirAll(.devcontainer)", "MkdirAll(.vscode)" }
            -> DirNode
      [] step = "scaffoldLicense"
            -> IF d.License = "MIT" THEN File(Rendered("LICENSE-MIT.tmpl", d))
               ELSE IF d.License = "Apache-2.0" THEN File(Rendered("LICENSE-Apache.tmpl", d))
               ELSE before
      [] step = "setup.sh"          -> File(ScriptContent(extensionsSymlink))
      [] step = "devcontainer.json" -> File(DevContainerJson(d))
      [] step = "extensions.json"   -> File(ExtensionsJson(d.VSCodeExtensions))
      [] OTHER                      -> File(Rendered(step, d))

\* A file left by a write that failed after the file was created.
IsPartial(node) == node[1] = "file" /\ node[2][1] = "partial"

\* C6: a returned Scaffold call has run a prefix of the fixed step order and
\* nothing else; it succeeded exactly if it ran them all; every step before
\* the last one run has left its output in place; the output of a failing
\* step is as it was or partially written (partially written where the
\* render itself failed); and no output of a step that did not run was
\* touched.
C6_FailFastNoCleanup ==
    \A p \in Procs :
        Returned(p) =>
            LET plan == ExpectedSteps(data[p])
                n == Len(ran[p])
                good == IF err[p] = Nil THEN n ELSE n - 1
            IN  /\ n >= 1 /\ n <= Len(plan)
                /\ ran[p] = SubSeq(plan, 1, n)
                /\ (err[p] = Nil) <=> (good = Len(plan))
                /\ \A i \in 1..good :
                      fs[StepOutput(plan[i])]
                          = StepResult(plan[i], data[p], pre[p][StepOutput(plan[i])])
                /\ (err[p] # Nil) =>
                      LET out == StepOutput(plan[n]) IN
                      /\ fs[out] = pre[p][out] \/ IsPartial(fs[out])
                      /\ (err[p] \in { ErrRender(plan[n]), ErrRenderLicense })
                            => IsPartial(fs[out])
                /\ \A q \in AllPaths \ { StepOutput(plan[i]) : i \in 1..n } :
                      fs[q] = pre[p][q]

C6_Witness ==
    /\ Returned(1)
    /\ ran[1] = SubSeq(ExpectedSteps(data[1]), 1, 4)
    /\ err[1] = ErrRender(coreTemplates[3])
    /\ IsFile(fs, CoreOutput(1)) /\ IsFile(fs, CoreOutput(2))
    /\ fs[CoreOutput(3)] = File(Partial(coreTemplates[3]))
    /\ \A i \in 4..Len(coreTemplates) : ~Exists(fs, CoreOutput(i))

\* C9: after a Scaffold call that returned nil all seven core outputs are
\* files rendered from their templates, whatever the license, dev-container,
\* chat-continuity and extension settings and whatever the destination held.
C9_CoreFilesAlways ==
    \A p \in Procs :
        (Returned(p) /\ err[p] = Nil)
            => \A i \in 1..Len(coreTemplates) :
                  fs[CoreOutput(i)] = File(Rendered(coreTemplates[i], data[p]))

C9_Witness ==
    /\ Returned(1) /\ err[1] = Nil
    /\ data[1].License = "GPL-3.0"
    /\ ~data[1].IncludeDevContainer /\ data[1].AIChatContinuity
    /\ data[1].VSCodeExtensions # << >>
    /\ \A i \in 1..Len(coreTemplates) : IsFile(fs, CoreOutput(i))

\* C10: from an empty or absent destination, after a Scaffold call that
\* returned nil, .devcontainer with Dockerfile and devcontainer.json exists
\* if IncludeDevContainer is set and none of the three exists otherwise, and
\* setup.sh exists exactly if IncludeDevContainer and AIChatContinuity are
\* both set.
C10_DevContainerMatchesFlags ==
    \A p \in Procs :
        (Returned(p) /\ err[p] = Nil /\ WasEmptyOrAbsent(p))
            => /\ data[p].IncludeDevContainer
                    => /\ IsDir(fs, dcDir)
                       /\ IsFile(fs, dockerfilePath)
                       /\ IsFile(fs, devcontainerJsonPath)
               /\ ~data[p].IncludeDevContainer
                    => /\ ~Exists(fs, dcDir)
                       /\ ~Exists(fs, dockerfilePath)
                       /\ ~Exists(fs, devcontainerJsonPath)
               /\ IsFile(fs, scriptPath)
                    <=> (data[p].IncludeDevContainer /\ data[p].AIChatContinuity)
               /\ Exists(fs, scriptPath) => IsFile(fs, scriptPath)

C10_Witness ==
    /\ Returned(1) /\ err[1] = Nil /\ WasEmptyOrAbsent(1)
    /\ ~data[1].IncludeDevContainer /\ data[1].AIChatContinuity
    /\ ~Exists(fs, dcDir) /\ ~Exists(fs, scriptPath)

\* -------------------------------------------------------------------------
\* Properties of the installer (checked under SpecInstall)
\* -------------------------------------------------------------------------

SkillPath(i) == Join(skillsDir, skillEntries[i])

\* The names of the documents present below skills/ in f.
PresentNames(f) ==
    { skillEntries[i] : i \in { j \in 1..Len(skillEntries) : Exists(f, SkillPath(j)) } }

Range(seq) == { seq[i] : i \in 1..Len(seq) }

StrictlySorted(names) ==
    \A i, j \in 1..Len(names) : i < j => NameRank(names[i]) < NameRank(names[j])

\* C7: a returned install has left every document entry that existed before
\* the call as it was; and where it returned nil, every other document holds
\* exactly the embedded content and the skipped list is sorted, without
\* repetition, and names exactly the documents that existed before.
C7_NeverOverwrites ==
    ipc = "done" =>
        /\ \A i \in 1..Len(skillEntries) :
              Exists(ipre, SkillPath(i)) => fs[SkillPath(i)] = ipre[SkillPath(i)]
        /\ ierr = Nil =>
              /\ \A i \in 1..Len(skillEntries) :
                    ~Exists(ipre, SkillPath(i))
                        => fs[SkillPath(i)] = File(Embedded(skillEntries[i]))
              /\ Range(report) = PresentNames(ipre)
              /\ StrictlySorted(report)

C7_Witness ==
    /\ ipc = "done" /\ ierr = Nil
    /\ ~Exists(ipre, SkillPath(1)) /\ ipre[SkillPath(2)] = File(UserContent)
    /\ fs[SkillPath(1)] = File(Embedded(skillEntries[1]))
    /\ fs[SkillPath(2)] = File(UserContent)
    /\ report = << skillEntries[2] >>

\* C8: an install that follows an install that returned nil returns nil,
\* changes nothing in the file system and reports every document name as
\* skipped; a file edited between the two still holds the edited content.
C8_Idempotent ==
    (ipc = "done" /\ priorOk) =>
        /\ ierr = Nil
        /\ fs = ipre
        /\ report = skillEntries
        /\ \A q \in editsBefore : fs[q] = File(EditedContent)

C8_Witness ==
    /\ ipc = "done" /\ priorOk /\ ierr = Nil
    /\ editsBefore = { SkillPath(1) }
    /\ fs[SkillPath(1)] = File(EditedContent)
    /\ fs[SkillPath(2)] = File(Embedded(skillEntries[2]))
    /\ report = skillEntries

\* -------------------------------------------------------------------------
\* Properties of the conditional outputs (checked under Spec)
\* -------------------------------------------------------------------------

\* The step named name ran in invocation p and returned nil.
StepSucceeded(p, name) ==
    \E i \in 1..Len(ran[p]) :
        ran[p][i] = name /\ (i < Len(ran[p]) \/ err[p] = Nil)

\* The file at path holds a marshalled JSON object.
IsJson(f, path) == IsFile(f, path) /\ f[path][2][1] = "json"

\* The members of the JSON object the file at path holds, as decoding its
\* text yields them.
JsonObject(f, path) == DecodeJson(f[path][2][2]).members

\* C11: from an empty or absent destination, after a Scaffold call that
\* returned nil, LICENSE is a file exactly if the selector is "MIT" or
\* "Apache-2.0", and is then the rendering of the selector's template from
\* the project name and the year; for every other selector, "none" and ""
\* included, nothing exists at LICENSE.  And no call fails in scaffoldLicense
\* unless the selector is one of the two.
C11_LicenseMatchesSelector ==
    \A p \in Procs :
        /\ (Returned(p) /\ err[p] = Nil /\ WasEmptyOrAbsent(p))
              => /\ IsFile(fs, licensePath) <=> data[p].License \in { "MIT", "Apache-2.0" }
                 /\ Exists(fs, licensePath) => IsFile(fs, licensePath)
                 /\ data[p].License = "MIT"
                       => fs[licensePath] = File(Rendered("LICENSE-MIT.tmpl", data[p]))
                 /\ data[p].License = "Apache-2.0"
                       => fs[licensePath] = File(Rendered("LICENSE-Apache.tmpl", data[p]))
        /\ (Returned(p) /\ err[p] # Nil /\ ran[p][Len(ran[p])] = "scaffoldLicense")
              => data[p].License \in { "MIT", "Apache-2.0" }

C11_Witness ==
    /\ Returned(1) /\ err[1] = Nil /\ WasEmptyOrAbsent(1)
    /\ data[1].License = "GPL-3.0"
    /\ StepSucceeded(1, "scaffoldLicense")
    /\ ~Exists(fs, licensePath)

\* C12: from an empty or absent destination, after a Scaffold call that
\* returned nil, .vscode/extensions.json exists exactly if IncludeDevContainer
\* is set and VSCodeExtensions is not empty, and its recommendations member is
\* then VSCodeExtensions, element by element in the same order; with the
\* dev container off neither the file nor .vscode exists.
C12_ExtensionManifest ==
    \A p \in Procs :
        (Returned(p) /\ err[p] = Nil /\ WasEmptyOrAbsent(p))
            => /\ Exists(fs, extensionsJsonPath)
                    <=> (data[p].IncludeDevContainer /\ data[p].VSCodeExtensions # << >>)
               /\ Exists(fs, extensionsJsonPath)
                    => /\ IsJson(fs, extensionsJsonPath)
                       /\ Len(JsonObject(fs, extensionsJsonPath)) = 1
                       /\ Member(JsonObject(fs, extensionsJsonPath), "recommendations")
                             = data[p].VSCodeExtensions
               /\ ~data[p].IncludeDevContainer => ~Exists(fs, vscodDir)

C12_Witness ==
    /\ Returned(1) /\ err[1] = Nil /\ WasEmptyOrAbsent(1)
    /\ data[1].IncludeDevContainer
    /\ IsJson(fs, extensionsJsonPath)
    /\ Member(JsonObject(fs, extensionsJsonPath), "recommendations") = << "c.d", "a.b" >>

\* C13: in every devcontainer.json a call has written, the customizations
\* member is there exactly if VSCodeExtensions is not empty; where it is
\* there its vscode.extensions is VSCodeExtensions in the same order, and
\* that is also the recommendations list of .vscode/extensions.json once the
\* call has written it.
C13_CustomizationsIffExtensions ==
    \A p \in Procs :
        StepSucceeded(p, "devcontainer.json") =>
            /\ IsJson(fs, devcontainerJsonPath)
            /\ LET dc == JsonObject(fs, devcontainerJsonPath) IN
               /\ HasMember(dc, "customizations") <=> data[p].VSCodeExtensions # << >>
               /\ HasMember(dc, "customizations")
                     => /\ Member(dc, "customizations").VSCode.Extensions
                              = data[p].VSCodeExtensions
                        /\ StepSucceeded(p, "extensions.json")
                              => Member(JsonObject(fs, extensionsJsonPath), "recommendations")
                                    = Member(dc, "customizations").VSCode.Extensions

C13_Witness ==
    /\ Returned(1) /\ err[1] = Nil
    /\ StepSucceeded(1, "devcontainer.json") /\ StepSucceeded(1, "extensions.json")
    /\ Member(JsonObject(fs, devcontainerJsonPath), "customizations").VSCode.Extensions
          = << "c.d", "a.b" >>

\* The mount of the extensions-cache volume for data d.
ExtensionsVolumeMount(d) ==
    << "source=", LowerDashed(d.ProjectName), "-vscode-extensions",
       ",target=/home/vscode/.vscode-extensions-cache,type=volume" >>

\* The bind mount of the state directory of a known tool.
ToolBindMount(tool) ==
    << "source=${localEnv:HOME}/", tool.StateDir, ",target=/home/vscode/", tool.StateDir,
       ",type=bind,consistency=cached" >>

IsGhCredentialsMount(mount) ==
    \E i \in 1..Len(mount) :
        mount[i] \in { ".config/gh",
                       "source=${localEnv:HOME}/.config/gh,target=/home/vscode/.config/gh,type=bind",
                       "source=${localEnv:HOME}/.config/gh,target=/home/vscode/.config/gh,type=bind,readonly" }

\* C15: in every devcontainer.json a call has written, mounts holds a
\* gh-credentials mount and the extensions volume mount: two mounts without
\* chat continuity, and two more than knownAITools has entries with it, one
\* of them for each known tool's state directory.
C15_GhCredentialsMount ==
    \A p \in Procs :
        StepSucceeded(p, "devcontainer.json") =>
            LET mounts == Member(JsonObject(fs, devcontainerJsonPath), "mounts") IN
            /\ Len(mounts) = IF data[p].AIChatContinuity THEN Len(knownAITools) + 2 ELSE 2
            /\ \E i \in 1..Len(mounts) : IsGhCredentialsMount(mounts[i])
            /\ \E i \in 1..Len(mounts) : mounts[i] = ExtensionsVolumeMount(data[p])
            /\ data[p].AIChatContinuity
                  => \A t \in 1..Len(knownAITools) :
                        \E i \in 1..Len(mounts) : mounts[i] = ToolBindMount(knownAITools[t])

\* C16: in every devcontainer.json a call has written, containerEnv forwards
\* GH_TOKEN and GITHUB_TOKEN from the host environment, and has the key
\* HOST_WORKSPACE, set to the local workspace folder, exactly if chat
\* continuity is on; it has no other key.
C16_ContainerEnv ==
    \A p \in Procs :
        StepSucceeded(p, "devcontainer.json") =>
            LET dc == JsonObject(fs, devcontainerJsonPath) IN
            /\ HasMember(dc, "containerEnv")
            /\ LET env == Member(dc, "containerEnv") IN
               /\ { "GH_TOKEN", "GITHUB_TOKEN" } \subseteq DOMAIN env
               /\ env["GH_TOKEN"] = "${localEnv:GH_TOKEN}"
               /\ env["GITHUB_TOKEN"] = "${localEnv:GITHUB_TOKEN}"
               /\ ("HOST_WORKSPACE" \in DOMAIN env) <=> data[p].AIChatContinuity
               /\ data[p].AIChatContinuity => env["HOST_WORKSPACE"] = "${localWorkspaceFolder}"
               /\ DOMAIN env \subseteq { "GH_TOKEN", "GITHUB_TOKEN", "HOST_WORKSPACE" }

C16_Witness ==
    /\ Returned(1) /\ err[1] = Nil
    /\ data[1].AIChatContinuity
    /\ StepSucceeded(1, "devcontainer.json")
    /\ DOMAIN Member(JsonObject(fs, devcontainerJsonPath), "containerEnv")
          = { "GH_TOKEN", "GITHUB_TOKEN", "HOST_WORKSPACE" }

\* The lines of the script the file at path holds.
ScriptLines(f, path) == f[path][2][2]

\* C17: in every devcontainer.json a call has written, postCreateCommand is
\* the symlink-and-initialize command without chat continuity and
\* "bash .devcontainer/setup.sh" with it; and with it the setup.sh the call
\* wrote before has that same symlink-and-initialize command as one of its
\* lines.
C17_PostCreateCommand ==
    \A p \in Procs :
        StepSucceeded(p, "devcontainer.json") =>
            LET cmd == Member(JsonObject(fs, devcontainerJsonPath), "postCreateCommand") IN
            /\ ~data[p].AIChatContinuity => cmd = extensionsSymlink
            /\ data[p].AIChatContinuity
                  => /\ cmd = "bash .devcontainer/setup.sh"
                     /\ IsFile(fs, scriptPath)
                     /\ fs[scriptPath][2][1] = "script"
                     /\ \E i \in 1..Len(ScriptLines(fs, scriptPath)) :
                           ScriptLines(fs, scriptPath)[i] = << extensionsSymlink >>

C17_Witness ==
    /\ Returned(1) /\ err[1] = Nil
    /\ data[1].AIChatContinuity
    /\ StepSucceeded(1, "devcontainer.json")
    /\ Member(JsonObject(fs, devcontainerJsonPath), "postCreateCommand")
          = "bash .devcontainer/setup.sh"
    /\ ScriptLines(fs, scriptPath)[10] = << extensionsSymlink >>


\* C22: every devcontainer.json a call has written, for each image, chat
\* continuity on or off and the extension list empty or not, holds text that
\* the decoder accepts, and unmarshalling it into a DevContainer gives the
\* value scaffoldDevContainer built.
C22_DescriptorRoundTrips ==
    \A p \in Procs :
        StepSucceeded(p, "devcontainer.json") =>
            /\ IsJson(fs, devcontainerJsonPath)
            /\ LET decoded == DecodeJson(fs[devcontainerJsonPath][2][2]) IN
               /\ decoded.ok
               /\ UnmarshalDevContainer(decoded.members) = BuildDevContainer(data[p])

C22_Witness ==
    /\ Returned(1) /\ err[1] = Nil
    /\ StepSucceeded(1, "devcontainer.json")
    /\ data[1].DevContainerImage = "python:3-3.12"
    /\ ~data[1].AIChatContinuity /\ data[1].VSCodeExtensions = << >>
    /\ DecodeJson(fs[devcontainerJsonPath][2][2]).ok
    /\ UnmarshalDevContainer(JsonObject(fs, devcontainerJsonPath)).Customizations = << >>


\* The line that opens the block of a tool: the test for its state directory.
GuardLine(tool) == << "if [ -d \"$HOME/", tool.StateDir, "\" ]; then" >>

\* A line that creates a directory or a link under a tool's state directory.
IsToolCommand(line) ==
    line[1] \in { "  mkdir -p \"$HOME/", "  ln -sfn \"$HOME/" }

LinesEqualTo(lines, line) == { i \in 1..Len(lines) : lines[i] = line }

\* Line j stands inside the block line i opens: after it, with no "fi" in
\* between and a "fi" after.
InsideBlock(lines, i, j) ==
    /\ i < j
    /\ \A k \in (i + 1)..(j - 1) : lines[k] # << "fi" >>
    /\ \E k \in (j + 1)..Len(lines) : lines[k] = << "fi" >>

\* C23: every setup.sh a call has written starts with the shebang line, has
\* the symlink command before the lines that set HOST_KEY and CONTAINER_KEY,
\* and after them exactly one block per tool of knownAITools, in the order of
\* the registry, where the mkdir and the ln of the tool stand only inside
\* the test for the tool's state directory.
C23_SetupScriptShape ==
    \A p \in Procs :
        StepSucceeded(p, "setup.sh") =>
            LET lines == ScriptLines(fs, scriptPath)
                symlinkAt == LinesEqualTo(lines, << extensionsSymlink >>)
                hostKeyAt == LinesEqualTo(lines,
                    << "HOST_KEY=$(echo \"$HOST_WORKSPACE\" | tr '/' '-')" >>)
                containerKeyAt == LinesEqualTo(lines,
                    << "CONTAINER_KEY=$(pwd | tr '/' '-')" >>)
                guardAt(k) == LinesEqualTo(lines, GuardLine(knownAITools[k]))
            IN  /\ lines[1] = << "#!/bin/bash" >>
                /\ Cardinality(symlinkAt) = 1
                /\ Cardinality(hostKeyAt) = 1
                /\ Cardinality(containerKeyAt) = 1
                /\ \A s \in symlinkAt : \A h \in hostKeyAt \cup containerKeyAt : s < h
                /\ \A k \in 1..Len(knownAITools) :
                      /\ Cardinality(guardAt(k)) = 1
                      /\ \A g \in guardAt(k) :
                            /\ \A h \in hostKeyAt \cup containerKeyAt : h < g
                            /\ k > 1 => \A g0 \in guardAt(k - 1) : g0 < g
                            /\ \E j \in 1..Len(lines) :
                                  /\ lines[j][1] = "  mkdir -p \"$HOME/"
                                  /\ lines[j][2] = knownAITools[k].StateDir
                                  /\ InsideBlock(lines, g, j)
                            /\ \E j \in 1..Len(lines) :
                                  /\ lines[j][1] = "  ln -sfn \"$HOME/"
                                  /\ lines[j][2] = knownAITools[k].StateDir
                                  /\ InsideBlock(lines, g, j)
                /\ \A j \in 1..Len(lines) :
                      IsToolCommand(lines[j]) =>
                          \E k \in 1..Len(knownAITools) :
                              /\ lines[j][2] = knownAITools[k].StateDir
                              /\ \A g \in guardAt(k) : InsideBlock(lines, g, j)

C23_Witness ==
    /\ Returned(1) /\ err[1] = Nil
    /\ StepSucceeded(1, "setup.sh")
    /\ Len(knownAITools) = 2
    /\ ScriptLines(fs, scriptPath)[16] = GuardLine(knownAITools[1])
    /\ ScriptLines(fs, scriptPath)[22] = GuardLine(knownAITools[2])


\* C26: from an empty or absent destination, in every state during and after
\* a Scaffold call, failed calls included: where devcontainer.json exists,
\* the Dockerfile it names is there completely rendered, and with chat
\* continuity setup.sh is there completely written; and where the
\* extensions manifest exists, devcontainer.json is there completely written.
C26_ReferencedFilesFirst ==
    \A p \in Procs :
        (pc[p] # "idle" /\ WasEmptyOrAbsent(p)) =>
            /\ Exists(fs, devcontainerJsonPath)
                  => /\ fs[dockerfilePath] = File(Rendered("Dockerfile.tmpl", data[p]))
                     /\ data[p].AIChatContinuity
                           => fs[scriptPath] = File(ScriptContent(extensionsSymlink))
            /\ Exists(fs, extensionsJsonPath)
                  => fs[devcontainerJsonPath] = File(DevContainerJson(data[p]))

\* A call that failed while writing the extensions manifest, after the
\* descriptor, the Dockerfile and setup.sh.
C26_Witness ==
    /\ Returned(1) /\ err[1] # Nil
    /\ WasEmptyOrAbsent(1)
    /\ data[1].AIChatContinuity
    /\ Exists(fs, extensionsJsonPath) /\ IsPartial(fs[extensionsJsonPath])
    /\ IsJson(fs, devcontainerJsonPath)
    /\ IsFile(fs, dockerfilePath) /\ IsFile(fs, scriptPath)

\* -------------------------------------------------------------------------
\* Properties of a second Scaffold call (checked under SpecRerun)
\* -------------------------------------------------------------------------

\* The second call was made on the path of the first.
SamePath == left = << >>

\* The first call left an entry below the destination that was not there, or
\* not so, when it was called.
FirstWroteEntry == \E q \in EntryPaths : pre[2][q] # pre[1][q]

\* Both calls rendered the same year: it is configured, or the clock showed
\* the same year to both.
SameYear == config[1].Year # 0 \/ data[1].Year = data[2].Year

C20_AsStated ==
    (Returned(2) /\ ~SamePath /\ WasEmptyOrAbsent(1) /\ err[1] = Nil /\ err[2] = Nil)
        => fs = left[1]

\* C20 as amended: two such calls leave the same entries in both
\* destinations; and where the year is configured, or the clock showed the
\* same year to both calls, every file has the same content in both.
C20_Deterministic ==
    (Returned(2) /\ ~SamePath /\ WasEmptyOrAbsent(1) /\ err[1] = Nil /\ err[2] = Nil)
        => /\ \A q \in AllPaths : Kind(fs, q) = Kind(left[1], q)
           /\ SameYear => fs = left[1]

C20_Witness ==
    /\ Returned(2) /\ ~SamePath /\ WasEmptyOrAbsent(1) /\ err[1] = Nil /\ err[2] = Nil
    /\ config[1].Year = 2025 /\ clock = 2027
    /\ data[2].License = "MIT" /\ data[2].IncludeDevContainer
    /\ IsFile(fs, licensePath) /\ IsJson(fs, devcontainerJsonPath)
    /\ fs = left[1]

\* -------------------------------------------------------------------------
\* Properties of the command line (checked under SpecArgs)
\* -------------------------------------------------------------------------

\* The arguments left after an optional leading --verbose is dropped.
AfterVerbose(a) == IF a # << >> /\ a[1] = "--verbose" THEN Tail(a) ELSE a

HasUsageLine(out) == \E i \in 1..Len(out) : out[i] = "\n\nUsage: seed <directory>"

\* parseArgs did to the argument list what the claim says of every list.
ParsedAsClaimed ==
    LET rest == AfterVerbose(args) IN
    /\ ~parsed.exited
    /\ Len(rest) = 1 => parsed.err = NoError /\ parsed.dir = rest[1]
    /\ Len(rest) # 1 => ErrorsAs(parsed.err, "usageError")

\* main appended the usage line exactly if run returned parseArgs's error.
UsageLineIffUsageError ==
    (rpc = "exited" /\ rerr # NoError)
        => (HasUsageLine(stderr) <=> ErrorsAs(rerr, "usageError") /\ rerr = parsed.err)

\* C25 as stated: for every argument list parseArgs returns the one argument
\* left after an optional leading --verbose, or a usageError where none or
\* more than one is left; and the usage line is appended exactly for a
\* usageError.
C25_AsStated ==
    /\ rpc # "start" => ParsedAsClaimed
    /\ UsageLineIffUsageError

\* C25, amended: for a non-empty argument list whose first argument is none
\* of --help, -h, help, --version, -v, parseArgs returns the one argument
\* left after an optional leading --verbose, or a usageError where none or
\* more than one is left; for an empty list or one starting with such a flag
\* it prints the usage or version text and exits with status 0 without
\* returning; and the usage line is appended exactly for a usageError.
C25_ParseArgs ==
    /\ rpc # "start"
          => IF args = << >> \/ args[1] \in HelpFlags \cup VersionFlags
             THEN /\ parsed.exited /\ parsed.err = NoError /\ parsed.stdout # << >>
                  /\ rpc = "exited" /\ stderr = << >>
             ELSE ParsedAsClaimed
    /\ UsageLineIffUsageError

C25_Witness ==
    /\ args = << "--verbose", "proj", "extra" >>
    /\ rpc = "exited"
    /\ HasUsageLine(stderr)

\* -------------------------------------------------------------------------
\* Properties of the validators (checked under SpecValidate)
\* -------------------------------------------------------------------------

\* The number of characters of a string.
RECURSIVE CharCount(_)
CharCount(str) == IF str = << >> THEN 0 ELSE Head(str).n + CharCount(Tail(str))

\* What a validator with the given limit is to return for a trimmed text of
\* n characters: nil from 1 to the limit, a "required" error at 0, a
\* "too long" error above the limit.
VerdictFits(e, n, limit, required, tooLong) ==
    /\ (e = NoError) <=> (1 <= n /\ n <= limit)
    /\ n = 0 => e = ErrorsNew(required)
    /\ n > limit => e = ErrorsNew(tooLong)

\* C24: validateProjectName accepts an input exactly if its trimmed form is
\* 1 to 100 characters long, with a "required" error at 0 and a "too long"
\* error above 100; validateDescription the same with 500.
C24_LengthBounds ==
    LET n == CharCount(TrimSpace(input)) IN
    /\ "name" \in verdict.checked
          => VerdictFits(verdict.name, n, NameLimit, "project name is required",
                         "project name is too long (max 100 characters)")
    /\ "description" \in verdict.checked
          => VerdictFits(verdict.description, n, DescriptionLimit,
                         "description is required",
                         "description is too long (max 500 characters)")

\* -------------------------------------------------------------------------
\* Properties of run (checked under SpecRun)
\* -------------------------------------------------------------------------

Started(phase) == \E i \in 1..Len(log) : log[i] = phase

ScaffoldSucceeded == pc[1] = "done" /\ err[1] = Nil

InstallSucceeded == ipc = "done" /\ ierr = Nil

\* The phases of a run that meets no failure, in order.
PhaseOrder(withGit) ==
    << "targetDirectoryExists", "checkTargetDir", "snapshotProjectFiles", "RunWizard",
       "Scaffold", "snapshotProjectFiles", "installSkillsWithReport",
       "snapshotProjectFiles" >>
    \o (IF withGit THEN << "initGitRepo" >> ELSE << >>) \o << "Done." >>

IsPrefix(a, b) == Len(a) <= Len(b) /\ a = SubSeq(b, 1, Len(a))

\* C21: in every state of a run, the phases started so far are a prefix of
\* the fixed order; the installer has started only if Scaffold returned nil;
\* git has started only if the wizard's InitGit answer is yes and Scaffold
\* and the installer returned nil; "Done." is reported only if Scaffold, the
\* installer and, where asked for, every git command succeeded and run
\* returns no error; and once run has an error to return, Scaffold, the
\* installer and git are where the failure left them: a phase after the
\* failing one has not started.
C21_PhasesInOrder ==
    /\ IsPrefix(log, PhaseOrder(wizard.data.InitGit))
    /\ pc[1] # "idle" => Started("Scaffold")
    /\ (ipc # "idle" \/ Started("installSkillsWithReport"))
          => Started("installSkillsWithReport") /\ ScaffoldSucceeded
    /\ (git # << >> \/ Started("initGitRepo"))
          => /\ Started("initGitRepo")
             /\ wizard.data.InitGit
             /\ ScaffoldSucceeded /\ InstallSucceeded
    /\ Started("Done.")
          => /\ rerr = NoError
             /\ ScaffoldSucceeded /\ InstallSucceeded
             /\ wizard.data.InitGit => git = GitCommands
    /\ rerr # NoError
          => /\ ~Started("Done.")
             /\ rpc \in { "returned", "exited" }
             /\ ~ScaffoldSucceeded => ipc = "idle" /\ git = << >>
             /\ ~InstallSucceeded => git = << >>

\* A run that asked for git and reported "Done.".
C21_Witness ==
    /\ Started("Done.") /\ rpc = "exited"
    /\ wizard.data.InitGit /\ git = GitCommands
    /\ IsDir(fs, gitDir)
    /\ ScaffoldSucceeded /\ InstallSucceeded

\* The paths at and below the target directory.
TargetPaths ==
    { q \in AllPaths : Len(q) >= Len(targetDir) /\ SubSeq(q, 1, Len(targetDir)) = targetDir }

TargetUntouched == \A q \in TargetPaths : fs[q] = started[q]

StartedNonEmpty == IsDir(started, targetDir) /\ ReadDir(started, targetDir) # {}

\* C28: Scaffold is called with allowNonEmpty = TRUE only after the user
\* answered yes to the prompt; a target that was non-empty when run started
\* is changed only after that answer; and where the prompt was declined or
\* cancelled, or the wizard was cancelled, run returns an error and nothing
\* at or below the target was created or changed.
C28_OverrideOnlyOnYes ==
    /\ (pc[1] # "idle" /\ allowNonEmpty[1]) => answer = "yes"
    /\ allowed => answer = "yes"
    /\ (StartedNonEmpty /\ ~TargetUntouched) => answer = "yes"
    /\ (answer \in { "no", "cancel" } \/ wizard.state = "cancelled")
          => /\ rpc \in { "returned", "exited" }
             /\ rerr # NoError
             /\ pc[1] = "idle"
             /\ TargetUntouched

\* The user said yes and Scaffold wrote into the non-empty target.
C28_Witness ==
    /\ StartedNonEmpty
    /\ answer = "yes"
    /\ pc[1] = "done" /\ err[1] = Nil /\ allowNonEmpty[1]
    /\ ~TargetUntouched

\* The wizard was cancelled for a target that did not exist.
C28_WitnessCancelled ==
    /\ ~Exists(started, targetDir)
    /\ wizard.state = "cancelled"
    /\ rpc = "exited"
    /\ ~Exists(fs, targetDir)

\* -------------------------------------------------------------------------
\* Properties of sequences of calls (checked under SpecSequence)
\* -------------------------------------------------------------------------

\* C27: no step of a Scaffold call or of the installer, in any sequence of
\* calls with or without the override, succeeding or failing, removes a
\* path: what is a file stays a file and what is a directory stays a
\* directory.
C27_NothingRemoved ==
    [][ \A q \in AllPaths :
           /\ IsFile(fs, q) => IsFile(fs', q)
           /\ IsDir(fs, q) => IsDir(fs', q) ]_vars

\* A first call with every conditional artifact on, then a second call with
\* the override and every conditional artifact off, both returning nil: the
\* LICENSE, .devcontainer and .vscode files of the first are still there.
C27_Witness ==
    /\ pc[1] = "done" /\ err[1] = Nil
    /\ data[1].License = "MIT" /\ data[1].IncludeDevContainer
    /\ pc[2] = "done" /\ err[2] = Nil /\ allowNonEmpty[2]
    /\ data[2].License = "none" /\ ~data[2].IncludeDevContainer
    /\ data[2].VSCodeExtensions = << >>
    /\ IsFile(fs, licensePath)
    /\ IsFile(fs, dockerfilePath) /\ IsFile(fs, scriptPath)
    /\ IsFile(fs, devcontainerJsonPath)
    /\ IsFile(fs, extensionsJsonPath)
    /\ installs > 0 /\ ipc = "done" /\ ierr = Nil

\* -------------------------------------------------------------------------
\* Properties of concurrent invocations (checked under SpecConcurrent)
\* -------------------------------------------------------------------------

\* The other of the two invocations.
Other(p) == CHOOSE q \in Procs : q # p

\* prepareDirectory has returned to invocation p with an error.
Rejected(p) == pc[p] = "done" /\ ran[p] = << "prepareDirectory" >> /\ err[p] # Nil

\* prepareDirectory has returned nil to invocation p.
Admitted(p) == pc[p] \notin { "idle", "prepare", "statted", "mkdir" } /\ ~Rejected(p)

RenderedBy(p, i) == File(Rendered(coreTemplates[i], data[p]))

\* C29: nothing keeps a second invocation out of a destination the first is
\* writing to.  An invocation that prepareDirectory has admitted is never
\* failed by the files of the other: it returns nil unless the environment
\* fails one of its own calls; and when both have returned nil, each core
\* file is the render of one of the two configurations, whichever wrote
\* last.
C29_NoMutualExclusion ==
    /\ \A p \in Procs :
          (Returned(p) /\ Admitted(p) /\ ~ioFault[p]) => err[p] = Nil
    /\ (\A p \in Procs : Returned(p) /\ err[p] = Nil)
          => \A i \in 1..Len(coreTemplates) :
                fs[CoreOutput(i)] \in { RenderedBy(1, i), RenderedBy(2, i) }

\* Both invocations, without the override, found the existing directory
\* empty and returned nil; the first core file is the first invocation's, the
\* last core file the second's.
C29_Witness ==
    /\ \A p \in Procs :
          /\ Returned(p) /\ err[p] = Nil
          /\ ~allowNonEmpty[p]
          /\ info[p] = "dir"
    /\ data[1] # data[2]
    /\ fs[CoreOutput(1)] = RenderedBy(1, 1)
    /\ fs[CoreOutput(Len(coreTemplates))] = RenderedBy(2, Len(coreTemplates))
    /\ IsFile(fs, licensePath)

\* Invocation p found the destination absent and has called os.Mkdir.
CalledMkdir(p) ==
    /\ info[p] = "ENOENT"
    /\ pc[p] \notin { "idle", "prepare", "statted", "mkdir" }
    /\ err[p] # ErrParentMissing

\* C30: when both invocations found the destination absent and both have
\* called os.Mkdir, at most one was admitted; the other returned the
\* "failed to create directory" error having run no step that writes, so
\* that every file below the destination is the admitted invocation's; and
\* both are turned away only where the environment failed both calls.
C30_MkdirAdmitsOne ==
    (CalledMkdir(1) /\ CalledMkdir(2)) =>
        /\ Rejected(1) \/ Rejected(2)
        /\ \A p \in Procs :
              Rejected(p) =>
                  /\ Contains(err[p], << "failed", "to", "create", "directory" >>)
                  /\ \A i \in 1..Len(coreTemplates) :
                        Exists(fs, CoreOutput(i))
                            => /\ Admitted(Other(p))
                               /\ fs[CoreOutput(i)] \in
                                      { RenderedBy(Other(p), i),
                                        File(Partial(coreTemplates[i])) }
                  /\ \A q \in { licensePath, dcDir, vscodDir } :
                        Exists(fs, q) => Admitted(Other(p))
        /\ (Rejected(1) /\ Rejected(2)) => (ioFault[1] /\ ioFault[2])

\* Both found the destination absent; the second created it and wrote all
\* its files, the first was turned away by os.Mkdir.
C30_Witness ==
    /\ CalledMkdir(1) /\ CalledMkdir(2)
    /\ Rejected(1) /\ ~ioFault[1]
    /\ Returned(2) /\ err[2] = Nil
    /\ IsDir(fs, targetDir)
    /\ fs[CoreOutput(1)] = RenderedBy(2, 1)

====
